---- MODULE Spec2Model ----
(***************************************************************************)
(* A model of the AOSP member viewer's analysis cache (javaCache.ts), of   *)
(* the analysis pipeline it memoizes (javaAst.ts, javaParser.ts) and of    *)
(* the host's multi-file scans (extension.ts, lifecycle.ts).               *)
(*                                                                         *)
(* Strings.  A JavaScript string is a sequence of UTF-16 code units; the   *)
(* model writes it as a sequence of numbers (<<59>> is ";").  A document   *)
(* text is a record [pad, body]: `pad` U+0020 characters followed by the   *)
(* code units of `body`.  The run of spaces is what lets a text be as long *)
(* as MAX_PARSE_BYTES without being enumerated one character at a time.    *)
(*                                                                         *)
(* Numbers.  hashText works on 32-bit words.  A word is the pair           *)
(* <<hi, lo>> of its 16-bit halves, value hi * 65536 + lo.                 *)
(***************************************************************************)
EXTENDS Integers, Sequences, FiniteSets, TLC

VARIABLES
    cache,      \* JavaFileCache.cache: the entries of the Map
    heap,       \* the analysis objects alive, by object identity
    last,       \* the most recent call on the cache and what it did
    host,       \* the host's two scans and their cancellation tokens
    probe       \* inputs and results of the pure-function specifications

vars == <<cache, heap, last, host, probe>>

-----------------------------------------------------------------------------
(* Strings and document texts *)

SPACE == 32
NEWLINE == 10
SEMI == 59
LCURLY == 123

Text(pad, body) == [pad |-> pad, body |-> body]

\* text.length
TextLength(text) == text.pad + Len(text.body)

\* text.charCodeAt(i), i counted from 0
charCodeAt(text, i) ==
    IF i < text.pad THEN SPACE ELSE text.body[i - text.pad + 1]

\* s.slice(from, to) of a plain string, offsets counted from 0
StrSlice(s, from, to) ==
    LET a == IF from < 0 THEN 0 ELSE IF from > Len(s) THEN Len(s) ELSE from
        b == IF to < 0 THEN 0 ELSE IF to > Len(s) THEN Len(s) ELSE to
    IN  IF b <= a THEN <<>> ELSE SubSeq(s, a + 1, b)

\* source.slice(from, to) of a document text, as a plain string
slice(text, from, to) ==
    LET n == TextLength(text)
        a == IF from < 0 THEN 0 ELSE IF from > n THEN n ELSE from
        b == IF to < 0 THEN 0 ELSE IF to > n THEN n ELSE to
    IN  IF b <= a THEN <<>> ELSE [k \in 1..(b - a) |-> charCodeAt(text, a + k - 1)]

\* the white space of String.prototype.trim and of the regular expression class \s
IsSpace(c) ==
    \/ c \in {9, 10, 11, 12, 13, 32, 160, 5760, 8232, 8233, 8239, 8287, 12288, 65279}
    \/ (c >= 8192 /\ c <= 8202)

RECURSIVE trimStart(_)
trimStart(s) ==
    IF s # <<>> /\ IsSpace(Head(s)) THEN trimStart(Tail(s)) ELSE s

RECURSIVE trimEnd(_)
trimEnd(s) ==
    IF s # <<>> /\ IsSpace(s[Len(s)]) THEN trimEnd(SubSeq(s, 1, Len(s) - 1)) ELSE s

trim(s) == trimEnd(trimStart(s))

-----------------------------------------------------------------------------
(* javaCache.ts: the content fingerprint and the byte size *)

MAX_PARSE_BYTES == 1048576

FnvOffsetHi == 33052      \* 2166136261 = 33052 * 65536 + 40389
FnvOffsetLo == 40389
FnvPrimeHi == 256         \* 16777619 = 256 * 65536 + 403
FnvPrimeLo == 403

RECURSIVE BitXor(_, _)
BitXor(a, b) ==
    IF a = 0 THEN b
    ELSE IF b = 0 THEN a
    ELSE ((a + b) % 2) + 2 * BitXor(a \div 2, b \div 2)

\* Math.imul(h, 16777619) on the word h, kept to 32 bits
imulPrime(h) ==
    LET low == h[2] * FnvPrimeLo
    IN  << (h[1] * FnvPrimeLo + h[2] * FnvPrimeHi + (low \div 65536)) % 65536,
           low % 65536 >>

\* a faulty hashStep, for comparison: the code unit is not mixed in
hashStepSkipXor(h, code) == imulPrime(h)

\* one turn of hashText's loop: hash ^= code; hash = Math.imul(hash, prime)
hashStep(h, code) == imulPrime(<<h[1], BitXor(h[2], code)>>)

RECURSIVE hashFrom(_, _, _)
hashFrom(h, s, i) ==
    IF i > Len(s) THEN h
    ELSE IF i = Len(s) THEN hashStep(h, s[i])
    ELSE LET mid == (i + Len(s)) \div 2
             \* the turns for s[i..mid], then those for the rest
             hash == hashFrom(h, SubSeq(s, 1, mid), i)
         IN  IF hash[1] >= 0 THEN hashFrom(hash, s, mid + 1) ELSE hash  \* (a word is never negative)

\* hashText's loop variable after a run of n spaces from the start of a text.
\* The run of MAX_PARSE_BYTES spaces is the one the model's long texts start
\* with; its value is the loop's, tabulated.
hashOfSpaces(n) ==
    IF n = 0 THEN <<FnvOffsetHi, FnvOffsetLo>>
    ELSE IF n = MAX_PARSE_BYTES THEN <<25692, 40389>>
    ELSE hashFrom(<<FnvOffsetHi, FnvOffsetLo>>, [k \in 1..n |-> SPACE], 1)

hashText(text) == hashFrom(hashOfSpaces(text.pad), text.body, 1)

IsHighSurrogate(c) == c >= 55296 /\ c <= 56319
IsLowSurrogate(c) == c >= 56320 /\ c <= 57343

\* the bytes of s[i..] in UTF-8: a surrogate pair is one 4-byte character, a
\* lone surrogate is written as U+FFFD (3 bytes)
RECURSIVE utf8From(_, _)
utf8From(s, i) ==
    IF i > Len(s) THEN 0
    ELSE IF i = Len(s) THEN (IF s[i] < 128 THEN 1 ELSE IF s[i] < 2048 THEN 2 ELSE 3)
    ELSE IF i + 1 = Len(s) /\ IsHighSurrogate(s[i]) /\ IsLowSurrogate(s[i + 1]) THEN 4
    ELSE LET mid == (i + Len(s)) \div 2
             \* the text is cut behind s[mid], or next to the pair s[mid], s[mid + 1]
             cut == IF IsHighSurrogate(s[mid]) /\ IsLowSurrogate(s[mid + 1])
                    THEN (IF mid > i THEN mid - 1 ELSE mid + 1)
                    ELSE mid
         IN  utf8From(SubSeq(s, 1, cut), i) + utf8From(s, cut + 1)

\* Buffer.byteLength(text, "utf8")
byteLength(text) == text.pad + utf8From(text.body, 1)

-----------------------------------------------------------------------------
(* Words of the source, as code units *)

W_public == <<112, 117, 98, 108, 105, 99>>
W_private == <<112, 114, 105, 118, 97, 116, 101>>
W_protected == <<112, 114, 111, 116, 101, 99, 116, 101, 100>>
W_static == <<115, 116, 97, 116, 105, 99>>
W_class == <<99, 108, 97, 115, 115>>
W_package == <<112, 97, 99, 107, 97, 103, 101>>
W_extends == <<101, 120, 116, 101, 110, 100, 115>>
W_int == <<105, 110, 116>>
W_void == <<118, 111, 105, 100>>
W_SystemService == <<83, 121, 115, 116, 101, 109, 83, 101, 114, 118, 105, 99, 101>>
W_onStart == <<111, 110, 83, 116, 97, 114, 116>>
W_onBootPhase == <<111, 110, 66, 111, 111, 116, 80, 104, 97, 115, 101>>
W_publishBinderService ==
    <<112, 117, 98, 108, 105, 115, 104, 66, 105, 110, 100, 101, 114, 83, 101, 114,
      118, 105, 99, 101>>
W_addService == <<97, 100, 100, 83, 101, 114, 118, 105, 99, 101>>
W_method == <<60, 109, 101, 116, 104, 111, 100, 62>>          \* "<method>"
W_unknown == <<60, 117, 110, 107, 110, 111, 119, 110, 62>>    \* "<unknown>"
W_main == <<109, 97, 105, 110>>
W_startBootstrapServices ==
    <<115, 116, 97, 114, 116, 66, 111, 111, 116, 115, 116, 114, 97, 112, 83, 101,
      114, 118, 105, 99, 101, 115>>
W_startCoreServices ==
    <<115, 116, 97, 114, 116, 67, 111, 114, 101, 83, 101, 114, 118, 105, 99, 101, 115>>
W_startOtherServices ==
    <<115, 116, 97, 114, 116, 79, 116, 104, 101, 114, 83, 101, 114, 118, 105, 99, 101,
      115>>

-----------------------------------------------------------------------------
(* Helpers on sequences.  An optional value is <<>> (undefined) or <<v>>. *)

RECURSIVE ConcatAll(_)
ConcatAll(ss) ==
    IF Len(ss) = 0 THEN <<>>
    ELSE IF Len(ss) = 1 THEN ss[1]
    ELSE LET half == Len(ss) \div 2
         IN  ConcatAll(SubSeq(ss, 1, half)) \o ConcatAll(SubSeq(ss, half + 1, Len(ss)))

RECURSIVE FirstSome(_)
FirstSome(opts) ==
    IF opts = <<>> THEN <<>>
    ELSE IF Head(opts) # <<>> THEN Head(opts)
    ELSE FirstSome(Tail(opts))

\* Array.prototype.find over the elements that pass: the first one, as an
\* optional value
FirstOf(passing) == IF passing = <<>> THEN <<>> ELSE <<passing[1]>>

\* the least of a set of numbers, -1 when the set is empty
LeastOf(indices) ==
    IF indices = {} THEN -1 ELSE CHOOSE i \in indices : \A j \in indices : i <= j

StartsWithAt(s, i, w) ==
    i + Len(w) - 1 <= Len(s) /\ SubSeq(s, i, i + Len(w) - 1) = w

\* String(n) of a number n >= 0
RECURSIVE decimal(_)
decimal(n) == IF n < 10 THEN <<48 + n>> ELSE decimal(n \div 10) \o <<48 + (n % 10)>>

-----------------------------------------------------------------------------
(* javaAst.ts: the syntax tree and the tree utilities.  A node is          *)
(* [name, children], children the slots in insertion order, each           *)
(* <<slot name, elements>>; a token is [image, startOffset, endOffset].    *)

Node(name, children) == [name |-> name, children |-> children]
Tok(image, startOffset) ==
    [image |-> image, startOffset |-> startOffset,
     endOffset |-> startOffset + Len(image) - 1]

isCstNode(value) == "children" \in DOMAIN value
isToken(value) == "image" \in DOMAIN value

\* the elements of a node in the order the loops over Object.keys meet them
Elements(node) == ConcatAll([k \in 1..Len(node.children) |-> node.children[k][2]])

(* The recursive walks over a tree meet its elements depth first, the     *)
(* elements of a node in the order of Elements.  That order is computed    *)
(* here with a stack of the elements still to meet: a turn takes the top   *)
(* element and puts the elements of a node in its place, unless the walk   *)
(* does not enter nodes of that name (`closed`).                           *)

VisitStep(w, closed) ==
    IF w.todo = <<>> THEN w
    ELSE LET element == w.todo[1]
         IN  [todo |-> (IF isCstNode(element) /\ element.name \notin closed
                        THEN Elements(element) ELSE <<>>) \o Tail(w.todo),
              met |-> Append(w.met, element)]

\* 2^k turns, or as many as empty the stack
RECURSIVE VisitTurns(_, _, _)
VisitTurns(w, closed, k) ==
    IF k = 0 THEN VisitStep(w, closed)
    ELSE LET half == VisitTurns(w, closed, k - 1)
         IN  IF half.todo = <<>> THEN half ELSE VisitTurns(half, closed, k - 1)

RECURSIVE VisitAll(_, _, _)
VisitAll(w, closed, k) ==
    LET behind == VisitTurns(w, closed, k)
    IN  IF behind.todo = <<>> THEN behind.met ELSE VisitAll(behind, closed, k + 1)

\* the node and the elements below it, in the order of the walk
Visited(node, closed) == VisitAll([todo |-> <<node>>, met |-> <<>>], closed, 0)

collectTokens(node) == SelectSeq(Tail(Visited(node, {})), isToken)

findAllNodes(node, name) ==
    SelectSeq(Visited(node, {}), LAMBDA element : isCstNode(element) /\ element.name = name)

findFirstNode(node, name) == FirstOf(findAllNodes(node, name))

\* tokens.sort((a, b) => a.startOffset - b.startOffset): a stable sort
sortByStart(tokens) ==
    LET n == Len(tokens)
        \* how many tokens the sorted array holds before the k-th: those that
        \* start earlier, and those of the same start that came earlier
        before(k) ==
            Cardinality({j \in 1..n :
                \/ tokens[j].startOffset < tokens[k].startOffset
                \/ (tokens[j].startOffset = tokens[k].startOffset /\ j < k)})
    IN  [p \in 1..n |-> tokens[CHOOSE k \in 1..n : before(k) = p - 1]]

\* token.endOffset ?? token.startOffset
endOf(tok) == IF "endOffset" \in DOMAIN tok THEN tok.endOffset ELSE tok.startOffset

tokensToText(tokens, source) ==
    IF tokens = <<>> THEN <<>>
    ELSE LET sorted == sortByStart(tokens)
         IN  trim(slice(source, sorted[1].startOffset, endOf(sorted[Len(sorted)]) + 1))

\* a faulty getAccess, for comparison: the last access modifier wins
getAccessLast(tokens) ==
    LET hits == SelectSeq(tokens,
                    LAMBDA t : t.image \in {W_public, W_private, W_protected})
    IN  IF hits = <<>> THEN "package"
        ELSE IF hits[Len(hits)].image = W_public THEN "public"
        ELSE IF hits[Len(hits)].image = W_private THEN "private"
        ELSE "protected"

getAccess(tokens) ==
    LET hit == FirstOf(SelectSeq(tokens,
                     LAMBDA t : t.image \in {W_public, W_private, W_protected}))
    IN  IF hit = <<>> THEN "package"
        ELSE IF hit[1].image = W_public THEN "public"
        ELSE IF hit[1].image = W_private THEN "private"
        ELSE "protected"

hasStatic(tokens) == \E k \in 1..Len(tokens) : tokens[k].image = W_static

-----------------------------------------------------------------------------
(* javaAst.ts: the line index *)

\* the offsets behind the line feeds of the body from its i-th character on
lineBreaksFrom(source, i) ==
    LET feeds == SelectSeq([k \in 1..Len(source.body) |-> k],
                           LAMBDA k : k >= i /\ source.body[k] = NEWLINE)
    IN  [j \in 1..Len(feeds) |-> source.pad + feeds[j]]

\* the characters before the body are spaces, none of them a line feed
buildLineIndex(source) == <<0>> \o lineBreaksFrom(source, 1)

RECURSIVE offsetToLineLoop(_, _, _, _)
offsetToLineLoop(offset, lineStarts, low, high) ==
    IF low > high THEN 1
    ELSE LET mid == (low + high) \div 2
         IN  IF lineStarts[mid + 1] <= offset
             THEN IF mid = Len(lineStarts) - 1 \/ lineStarts[mid + 2] > offset
                  THEN mid + 1
                  ELSE offsetToLineLoop(offset, lineStarts, mid + 1, high)
             ELSE offsetToLineLoop(offset, lineStarts, low, mid - 1)

\* a faulty offsetToLine, for comparison: lineStarts[mid] < offset for <=
offsetToLineStrict(offset, lineStarts) ==
    LET below == {k \in 1..Len(lineStarts) : lineStarts[k] < offset}
    IN  IF below = {} THEN 1
        ELSE CHOOSE k \in below : \A j \in below : j <= k

offsetToLine(offset, lineStarts) ==
    offsetToLineLoop(offset, lineStarts, 0, Len(lineStarts) - 1)

-----------------------------------------------------------------------------
(* javaAst.ts: the structural summarizer *)

\* a faulty getNodeRange, for comparison: the end is taken from the first
\* token
getNodeRangeOfFirstToken(node) ==
    LET tokens == collectTokens(node)
    IN  IF tokens = <<>> THEN <<>>
        ELSE LET sorted == sortByStart(tokens)
             IN  <<[start |-> sorted[1].startOffset,
                    end |-> endOf(sorted[1]) + 1]>>

getNodeRange(node) ==
    LET rangeOfSorted(sorted) ==
            <<[start |-> sorted[1].startOffset,
               end |-> endOf(sorted[Len(sorted)]) + 1]>>
        rangeOfTokens(tokens) ==
            IF tokens = <<>> THEN <<>> ELSE rangeOfSorted(sortByStart(tokens))
    IN  rangeOfTokens(collectTokens(node))

findMethodBodyRange(methodNode) ==
    LET bodyNode == findFirstNode(methodNode, "methodBody")
    IN  IF bodyNode = <<>> THEN <<>> ELSE getNodeRange(bodyNode[1])

\* text.replace(/^package\s+/, "")
stripPackageKeyword(text) ==
    IF StartsWithAt(text, 1, W_package)
       /\ Len(text) > Len(W_package) /\ IsSpace(text[Len(W_package) + 1])
    THEN trimStart(SubSeq(text, Len(W_package) + 1, Len(text)))
    ELSE text

\* text.replace(/;\s*$/, "")
stripFinalSemicolon(text) ==
    LET t == trimEnd(text)
    IN  IF t # <<>> /\ t[Len(t)] = SEMI THEN SubSeq(t, 1, Len(t) - 1) ELSE text

extractPackageName(root, source) ==
    LET pkgNode == findFirstNode(root, "packageDeclaration")
    IN  IF pkgNode = <<>> THEN <<>>
        ELSE trim(stripFinalSemicolon(stripPackageKeyword(
                 tokensToText(collectTokens(pkgNode[1]), source))))

extractClassNames(root) ==
    LET classNodes == findAllNodes(root, "normalClassDeclaration")
        nameOf(classNode) ==
            LET declaratorNode == findFirstNode(classNode, "classDeclarator")
            IN  IF declaratorNode = <<>> THEN <<>>
                ELSE LET nameToken == FirstOf(SelectSeq(collectTokens(declaratorNode[1]),
                                           LAMBDA t : t.image # <<>> /\ t.image # W_class))
                     IN  IF nameToken = <<>> THEN <<>> ELSE <<nameToken[1].image>>
    IN  ConcatAll([k \in 1..Len(classNodes) |-> nameOf(classNodes[k])])

extractFieldMembers(fieldNode, source, lineStarts) ==
    LET tokens == collectTokens(fieldNode)
        typeNode == FirstSome(<<findFirstNode(fieldNode, "unannType"),
                                findFirstNode(fieldNode, "typeType"),
                                findFirstNode(fieldNode, "type")>>)
        typeTokens == IF typeNode = <<>> THEN <<>> ELSE collectTokens(typeNode[1])
        typeText == tokensToText(typeTokens, source)
        declaratorIds == findAllNodes(fieldNode, "variableDeclaratorId")
        fieldOf(declaratorId) ==
            LET nameToken == FirstOf(SelectSeq(collectTokens(declaratorId),
                                       LAMBDA t : t.image # <<>>))
            IN  IF nameToken = <<>> THEN <<>>
                ELSE <<[name |-> nameToken[1].image,
                        type |-> typeText,
                        visibility |-> getAccess(tokens),
                        isStatic |-> hasStatic(tokens),
                        startLine |-> offsetToLine(nameToken[1].startOffset, lineStarts)]>>
    IN  ConcatAll([k \in 1..Len(declaratorIds) |-> fieldOf(declaratorIds[k])])

countParameters(methodDeclarator) ==
    Len(findAllNodes(methodDeclarator, "formalParameter"))
    + Len(findAllNodes(methodDeclarator, "lastFormalParameter"))
    + Len(findAllNodes(methodDeclarator, "receiverParameter"))

extractMethodMembers(methodNode, source, lineStarts) ==
    LET located(name, paramsCount, tokens, resultText, call, range, bodyRange,
                startOffset) ==
            <<[name |-> name,
               paramsCount |-> paramsCount,
               visibility |-> getAccess(tokens),
               isStatic |-> hasStatic(tokens),
               signature |-> IF resultText # <<>> THEN resultText \o <<SPACE>> \o call
                             ELSE call,
               startOffset |-> startOffset,
               endOffset |-> IF range # <<>> THEN range[1].end ELSE startOffset,
               bodyStartOffset |-> IF bodyRange = <<>> THEN <<>> ELSE <<bodyRange[1].start>>,
               bodyEndOffset |-> IF bodyRange = <<>> THEN <<>> ELSE <<bodyRange[1].end>>,
               startLine |-> offsetToLine(startOffset, lineStarts)]>>
        named(name, nameToken, paramsCount, resultNode, range) ==
            located(name, paramsCount, collectTokens(methodNode),
                    tokensToText(IF resultNode = <<>> THEN <<>>
                                 ELSE collectTokens(resultNode[1]), source),
                    name \o <<40>> \o decimal(paramsCount) \o <<41>>,
                    range, findMethodBodyRange(methodNode),
                    IF nameToken # <<>> THEN nameToken[1].startOffset
                    ELSE IF range # <<>> THEN range[1].start
                    ELSE 0)
        member(nameToken, paramsCount) ==
            named(IF nameToken = <<>> THEN W_method ELSE nameToken[1].image,
                  nameToken, paramsCount,
                  findFirstNode(methodNode, "result"), getNodeRange(methodNode))
        declared(declaratorNode) ==
            IF declaratorNode = <<>> THEN <<>>
            ELSE member(FirstOf(SelectSeq(sortByStart(collectTokens(declaratorNode[1])),
                                          LAMBDA t : t.image # <<>> /\ t.image # <<40>>)),
                        countParameters(declaratorNode[1]))
    IN  declared(findFirstNode(methodNode, "methodDeclarator"))

-----------------------------------------------------------------------------
(* javaAst.ts: the invocation scanner.  Offsets into a string count from 0. *)

At(text, i) == text[i + 1]

IsWordChar(c) ==
    \/ (c >= 65 /\ c <= 90) \/ (c >= 97 /\ c <= 122) \/ (c >= 48 /\ c <= 57) \/ c = 95
IsIdentStart(c) == (c >= 65 /\ c <= 90) \/ (c >= 97 /\ c <= 122) \/ c = 95 \/ c = 36
IsIdentPart(c) == IsWordChar(c) \/ c = 36

\* a faulty clamp, for comparison: the depth may fall below zero
depthAfterCloseUnclamped(depth) == depth - 1

\* Math.max(0, depth - 1)
depthAfterClose(depth) == IF depth - 1 > 0 THEN depth - 1 ELSE 0

\* one turn of countArgumentsFromText's loop on the character ch; p is
\* <<depthParen, depthAngle, depthBracket, count>>
countArgumentsStep(p, ch) ==
    IF ch = 40 THEN <<p[1] + 1, p[2], p[3], p[4]>>
    ELSE IF ch = 41 THEN <<depthAfterClose(p[1]), p[2], p[3], p[4]>>
    ELSE IF ch = 60 THEN <<p[1], p[2] + 1, p[3], p[4]>>
    ELSE IF ch = 62 THEN <<p[1], depthAfterClose(p[2]), p[3], p[4]>>
    ELSE IF ch = 91 THEN <<p[1], p[2], p[3] + 1, p[4]>>
    ELSE IF ch = 93 THEN <<p[1], p[2], depthAfterClose(p[3]), p[4]>>
    ELSE IF ch = 44 /\ p[1] = 0 /\ p[2] = 0 /\ p[3] = 0
         THEN <<p[1], p[2], p[3], p[4] + 1>>
    ELSE p

\* the turns of the loop for the characters of s from the i-th on
RECURSIVE countArgumentsFrom(_, _, _)
countArgumentsFrom(p, s, i) ==
    IF i > Len(s) THEN p
    ELSE IF i = Len(s) THEN countArgumentsStep(p, s[i])
    ELSE LET mid == (i + Len(s)) \div 2
             \* the turns for s[i..mid], then those for the rest
             q == countArgumentsFrom(p, SubSeq(s, 1, mid), i)
         IN  IF q[4] >= 1 THEN countArgumentsFrom(q, s, mid + 1) ELSE q  \* (count starts at 1)

countArgumentsFromText(text) ==
    LET trimmed == trim(text)
    IN  IF trimmed = <<>> THEN 0
        ELSE countArgumentsFrom(<<0, 0, 0, 1>>, trimmed, 1)[4]

isCallKeyword(name) ==
    name \in { <<105, 102>>,                                  \* if
               <<102, 111, 114>>,                             \* for
               <<119, 104, 105, 108, 101>>,                   \* while
               <<115, 119, 105, 116, 99, 104>>,               \* switch
               <<99, 97, 116, 99, 104>>,                      \* catch
               <<115, 121, 110, 99, 104, 114, 111, 110, 105, 122, 101, 100>>,
               <<110, 101, 119>>,                             \* new
               <<114, 101, 116, 117, 114, 110>>,              \* return
               <<116, 104, 114, 111, 119>>,                   \* throw
               <<116, 114, 121>>,                             \* try
               <<101, 108, 115, 101>>,                        \* else
               <<100, 111>>,                                  \* do
               <<99, 97, 115, 101>>,                          \* case
               <<115, 117, 112, 101, 114>>,                   \* super
               <<116, 104, 105, 115>>,                        \* this
               <<97, 115, 115, 101, 114, 116>> }              \* assert

\* one turn of findMatchingParen's loop at index i.  The state is [depth,
\* inString, skip, close]: inString is 0 (null) or the code of the quote
\* that opened the literal, skip says that the turn before stepped over
\* index i (i += 1 behind a backslash), close is the index returned, -1
\* while the loop runs
findMatchingParenStep(st, text, i) ==
    IF st.close # -1 THEN st
    ELSE IF st.skip THEN [st EXCEPT !.skip = FALSE]
    ELSE LET ch == At(text, i)
         IN  IF st.inString # 0
             THEN IF ch = 92 /\ i + 1 < Len(text) THEN [st EXCEPT !.skip = TRUE]
                  ELSE IF ch = st.inString THEN [st EXCEPT !.inString = 0]
                  ELSE st
             ELSE IF ch = 34 \/ ch = 39 THEN [st EXCEPT !.inString = ch]
             ELSE IF ch = 40 THEN [st EXCEPT !.depth = st.depth + 1]
             ELSE IF ch = 41
             THEN IF st.depth - 1 = 0 THEN [st EXCEPT !.depth = 0, !.close = i]
                  ELSE [st EXCEPT !.depth = st.depth - 1]
             ELSE st

\* the turns of the loop for the indices from..to
RECURSIVE findMatchingParenLoop(_, _, _, _)
findMatchingParenLoop(st, text, from, to) ==
    IF from > to THEN st
    ELSE IF from = to THEN findMatchingParenStep(st, text, from)
    ELSE LET mid == (from + to) \div 2
             half == findMatchingParenLoop(st, text, from, mid)
         IN  IF half.close # -1 THEN half
             ELSE findMatchingParenLoop(half, text, mid + 1, to)

\* a faulty findMatchingParen, for comparison: quotes are not tracked
findMatchingParenIgnoringQuotes(text, openIndex) ==
    LET depthAt(i) == Cardinality({j \in openIndex..i : At(text, j) = 40})
                      - Cardinality({j \in openIndex..i : At(text, j) = 41})
        closing == {i \in openIndex..(Len(text) - 1) :
                       At(text, i) = 41 /\ depthAt(i) = 0}
    IN  IF closing = {} THEN -1
        ELSE CHOOSE i \in closing : \A j \in closing : i <= j

findMatchingParen(text, openIndex) ==
    findMatchingParenLoop([depth |-> 0, inString |-> 0, skip |-> FALSE, close |-> -1],
                          text, openIndex, Len(text) - 1).close

\* the first index from i on that holds no character of the kind, the
\* length of the text when there is none
skipWhile(text, i, kind) ==
    LET ofKind(c) == IF kind = "ident" THEN IsIdentPart(c) ELSE IsSpace(c)
        stop == LeastOf({j \in i..(Len(text) - 1) : ~ofKind(At(text, j))})
    IN  IF i >= Len(text) THEN i
        ELSE IF stop = -1 THEN Len(text)
        ELSE stop

\* \b at index i: a word character on exactly one side
wordBoundaryAt(text, i) ==
    (i > 0 /\ IsWordChar(At(text, i - 1))) # (i < Len(text) /\ IsWordChar(At(text, i)))

\* /\b([A-Za-z_$][\w$]*)\s*\(/ tried at index i: <<>> or <<[nameEnd, open]>>
callPatternAt(text, i) ==
    IF i < Len(text) /\ wordBoundaryAt(text, i) /\ IsIdentStart(At(text, i))
    THEN LET opened(nameEnd, open) ==
                 IF open < Len(text) /\ At(text, open) = 40
                 THEN <<[nameEnd |-> nameEnd, open |-> open]>>
                 ELSE <<>>
             named(nameEnd) == opened(nameEnd, skipWhile(text, nameEnd, "space"))
         IN  named(skipWhile(text, i + 1, "ident"))
    ELSE <<>>

\* regex.exec from lastIndex on: the leftmost match, <<>> when there is none
execFrom(text, lastIndex) ==
    LET matched(index, m) ==
            <<[index |-> index, nameEnd |-> m[1].nameEnd, open |-> m[1].open]>>
        matchAt(index) ==
            IF index = -1 THEN <<>> ELSE matched(index, callPatternAt(text, index))
    IN  matchAt(LeastOf({i \in lastIndex..(Len(text) - 1) : callPatternAt(text, i) # <<>>}))

RECURSIVE scanInvocationsFrom(_, _, _, _)
scanInvocationsFrom(text, baseOffset, lineStarts, lastIndex) ==
    LET found(name, openParenIndex, closeParenIndex, startOffset) ==
            IF isCallKeyword(name) \/ closeParenIndex = -1 THEN <<>>
            ELSE <<[name |-> name,
                    argsCount |-> countArgumentsFromText(
                        StrSlice(text, openParenIndex + 1, closeParenIndex)),
                    startOffset |-> startOffset,
                    line |-> offsetToLine(startOffset, lineStarts)]>>
        \* the turn of the loop for a match, and the turns behind it
        turn(match) ==
            IF match = <<>> THEN <<>>
            ELSE found(StrSlice(text, match[1].index, match[1].nameEnd),
                       match[1].open,
                       findMatchingParen(text, match[1].open),
                       baseOffset + match[1].index)
                 \o scanInvocationsFrom(text, baseOffset, lineStarts, match[1].open + 1)
    IN  turn(execFrom(text, lastIndex))

scanInvocationsInText(text, baseOffset, lineStarts) ==
    scanInvocationsFrom(text, baseOffset, lineStarts, 0)

extractMethodInvocations(methods, source, lineStarts) ==
    ConcatAll([k \in 1..Len(methods) |->
        IF methods[k].bodyStartOffset = <<>> \/ methods[k].bodyEndOffset = <<>>
        THEN <<>>
        ELSE scanInvocationsInText(
                 slice(source, methods[k].bodyStartOffset[1], methods[k].bodyEndOffset[1]),
                 methods[k].bodyStartOffset[1], lineStarts)])

-----------------------------------------------------------------------------
(* javaAst.ts: the system-service summary *)

\* /extends\s+SystemService/.test(header)
extendsSystemService(header) ==
    \E i \in 1..Len(header) :
        /\ StartsWithAt(header, i, W_extends)
        /\ i + Len(W_extends) <= Len(header)
        /\ IsSpace(header[i + Len(W_extends)])
        /\ LET k == skipWhile(header, i + Len(W_extends) - 1, "space")
           IN  StartsWithAt(header, k + 1, W_SystemService)

\* source.split("\n")[line - 1] ?? ""
lineTextOf(source, line, lineStarts) ==
    IF line < 1 \/ line > Len(lineStarts) THEN <<>>
    ELSE slice(source, lineStarts[line],
               IF line < Len(lineStarts) THEN lineStarts[line + 1] - 1
               ELSE TextLength(source))

\* lineText.match(/\"([^\"]+)\"/): the first quoted, non-empty run, as an
\* optional string
quotedFrom(lineText, i) ==
    LET \* the next quotation mark behind index k, -1 when there is none
        closing(k) == LeastOf({j \in (k + 1)..Len(lineText) : lineText[j] = 34})
        opening == LeastOf({k \in i..Len(lineText) :
                               lineText[k] = 34 /\ closing(k) > k + 1})
    IN  IF opening = -1 THEN <<>>
        ELSE <<SubSeq(lineText, opening + 1, closing(opening) - 1)>>

extractSystemServiceSummary(className, classNode, methods, invocations, source) ==
    IF classNode = <<>> THEN <<>>
    ELSE IF ~extendsSystemService(tokensToText(collectTokens(classNode[1]), source))
    THEN <<>>
    ELSE
    LET lineStarts == buildLineIndex(source)
        onStart == FirstOf(SelectSeq(methods, LAMBDA m : m.name = W_onStart))
        boots == SelectSeq(methods, LAMBDA m : m.name = W_onBootPhase)
        calls == SelectSeq(invocations,
                     LAMBDA c : c.name = W_publishBinderService \/ c.name = W_addService)
        binderOf(invocation) ==
            LET match == quotedFrom(lineTextOf(source, invocation.line, lineStarts), 1)
            IN  [name |-> IF match # <<>> THEN match[1] ELSE W_unknown,
                 line |-> invocation.line]
    IN  <<[serviceClass |-> className,
           onStartLine |-> IF onStart = <<>> THEN <<>> ELSE <<onStart[1].startLine>>,
           onBootPhases |-> [k \in 1..Len(boots) |-> boots[k].startLine],
           binderServices |-> [k \in 1..Len(calls) |-> binderOf(calls[k])]]>>

-----------------------------------------------------------------------------
(* The grammar parser (java-parser), an external collaborator: parse(text) *)
(* returns the syntax tree or throws.  It is modelled on the texts the     *)
(* model draws: two class files and the texts made of white space and      *)
(* semicolons parse, every other text is rejected.                         *)

\* class S extends SystemService{}
SvcSource ==
    Text(0, <<99, 108, 97, 115, 115, 32, 83, 32, 101, 120, 116, 101, 110, 100, 115, 32,
              83, 121, 115, 116, 101, 109, 83, 101, 114, 118, 105, 99, 101, 123, 125>>)

\* class Z{static void main(){}}
MainSource ==
    Text(0, <<99, 108, 97, 115, 115, 32, 90, 123, 115, 116, 97, 116, 105, 99, 32, 118,
              111, 105, 100, 32, 109, 97, 105, 110, 40, 41, 123, 125, 125>>)

\* a node whose only child is one node, in the slot named after it
Wrap(name, child) == Node(name, << <<child.name, <<child>>>> >>)

CompilationUnit(typeDeclarations) ==
    Wrap("compilationUnit",
         Node("ordinaryCompilationUnit",
              IF typeDeclarations = <<>> THEN <<>>
              ELSE << <<"typeDeclaration", typeDeclarations>> >>))

ClassDeclaration(normalClass) ==
    Wrap("typeDeclaration", Wrap("classDeclaration", normalClass))

SvcCst ==
    CompilationUnit(<<ClassDeclaration(
        Node("normalClassDeclaration",
             << <<"Class", <<Tok(W_class, 0)>>>>,
                <<"typeIdentifier",
                  <<Node("typeIdentifier", << <<"Identifier", <<Tok(<<83>>, 6)>>>> >>)>>>>,
                <<"superclass",
                  <<Node("superclass",
                         << <<"Extends", <<Tok(W_extends, 8)>>>>,
                            <<"classType",
                              <<Node("classType",
                                     << <<"Identifier",
                                          <<Tok(W_SystemService, 16)>>>> >>)>>>> >>)>>>>,
                <<"classBody",
                  <<Node("classBody",
                         << <<"LCurly", <<Tok(<<123>>, 29)>>>>,
                            <<"RCurly", <<Tok(<<125>>, 30)>>>> >>)>>>> >>))>>)

MainMethodCst ==
    Node("methodDeclaration",
         << <<"methodModifier",
              <<Node("methodModifier", << <<"Static", <<Tok(W_static, 8)>>>> >>)>>>>,
            <<"methodHeader",
              <<Node("methodHeader",
                     << <<"result",
                          <<Node("result", << <<"Void", <<Tok(W_void, 15)>>>> >>)>>>>,
                        <<"methodDeclarator",
                          <<Node("methodDeclarator",
                                 << <<"Identifier", <<Tok(W_main, 20)>>>>,
                                    <<"LBrace", <<Tok(<<40>>, 24)>>>>,
                                    <<"RBrace", <<Tok(<<41>>, 25)>>>> >>)>>>> >>)>>>>,
            <<"methodBody",
              <<Wrap("methodBody",
                     Node("block",
                          << <<"LCurly", <<Tok(<<123>>, 26)>>>>,
                             <<"RCurly", <<Tok(<<125>>, 27)>>>> >>))>>>> >>)

MainCst ==
    CompilationUnit(<<ClassDeclaration(
        Node("normalClassDeclaration",
             << <<"Class", <<Tok(W_class, 0)>>>>,
                <<"typeIdentifier",
                  <<Node("typeIdentifier", << <<"Identifier", <<Tok(<<90>>, 6)>>>> >>)>>>>,
                <<"classBody",
                  <<Node("classBody",
                         << <<"LCurly", <<Tok(<<123>>, 7)>>>>,
                            <<"classBodyDeclaration",
                              <<Wrap("classBodyDeclaration",
                                     Wrap("classMemberDeclaration", MainMethodCst))>>>>,
                            <<"RCurly", <<Tok(<<125>>, 28)>>>> >>)>>>> >>))>>)

(* Class files written out from a description, and their trees.  A file  *)
(* is [name, super, sep, members]: the class name, the optional name of   *)
(* the superclass, the white space between members, and the members: a    *)
(* method [kind, mods, name, params, body] (body: the optional text       *)
(* between its braces; with `local`, a local class declared at the head   *)
(* of the body), a field [kind, mods, name] or an inner class             *)
(* [kind, file].  The layout is a sequence of items: a token (slot and    *)
(* image), white space, or a node (name and items).                        *)

TokenItem(slot, image) == [kind |-> "tok", slot |-> slot, image |-> image]
GapItem(image) == [kind |-> "gap", image |-> image]
NodeItem(name, items) == [kind |-> "node", slot |-> name, items |-> items]
\* nodes of one element each, one in the other, around the items
ChainItem(names, items) == [kind |-> "chain", names |-> names, items |-> items]

(* The layout read from left to right: the items in their order, a node  *)
(* as an opening mark, its items and a closing mark.  It is computed with *)
(* a stack of the items still to read.                                    *)

OpenMark(name) == [kind |-> "open", slot |-> name]
CloseMark == [kind |-> "close"]

ReadStep(w) ==
    IF w.todo = <<>> THEN w
    ELSE LET item == w.todo[1]
         IN  IF item.kind = "node"
             THEN [todo |-> item.items \o <<CloseMark>> \o Tail(w.todo),
                   read |-> Append(w.read, OpenMark(item.slot))]
             ELSE IF item.kind = "chain"
             THEN [todo |-> item.items
                            \o [k \in 1..Len(item.names) |-> CloseMark]
                            \o Tail(w.todo),
                   read |-> w.read
                            \o [k \in 1..Len(item.names) |-> OpenMark(item.names[k])]]
             ELSE [todo |-> Tail(w.todo), read |-> Append(w.read, item)]

\* 2^k turns, or as many as empty the stack
RECURSIVE ReadTurns(_, _)
ReadTurns(w, k) ==
    IF k = 0 THEN ReadStep(w)
    ELSE LET half == ReadTurns(w, k - 1)
         IN  IF half.todo = <<>> THEN half ELSE ReadTurns(half, k - 1)

RECURSIVE ReadAll(_, _)
ReadAll(w, k) ==
    LET behind == ReadTurns(w, k)
    IN  IF behind.todo = <<>> THEN behind.read ELSE ReadAll(behind, k + 1)

ItemsRead(items) == ReadAll([todo |-> items, read |-> <<>>], 0)

ReadText(read) ==
    ConcatAll([k \in 1..Len(read) |->
        IF read[k].kind \in {"tok", "gap"} THEN read[k].image ELSE <<>>])

ItemsText(items) == ReadText(ItemsRead(items))

\* the node `name` of the elements `placed` ([slot, element] each): the
\* elements of one slot keep their order, the slots the order of their
\* first elements
NodeOf(name, placed) ==
    LET n == Len(placed)
        isFirst(k) == \A j \in 1..(k - 1) : placed[j].slot # placed[k].slot
        firsts == SelectSeq([k \in 1..n |-> k], isFirst)
        inSlotOf(f) == SelectSeq(placed, LAMBDA p : p.slot = placed[firsts[f]].slot)
    IN  Node(name,
             [f \in 1..Len(firsts) |->
                 <<placed[firsts[f]].slot,
                   [j \in 1..Len(inSlotOf(f)) |-> inSlotOf(f)[j].element]>>])

\* one entry of the layout read at offset b.at; b.open holds the nodes
\* begun and not yet closed, the innermost last, each with the elements
\* placed in it so far
BuildStep(b, entry) ==
    LET depth == Len(b.open)
        place(slot, element) ==
            [b.open EXCEPT ![depth].placed =
                Append(@, [slot |-> slot, element |-> element])]
    IN  IF entry.kind = "open"
        THEN [b EXCEPT !.open = Append(@, [name |-> entry.slot, placed |-> <<>>])]
        ELSE IF entry.kind = "tok"
        THEN [at |-> b.at + Len(entry.image),
              open |-> place(entry.slot, Tok(entry.image, b.at))]
        ELSE IF entry.kind = "gap"
        THEN [b EXCEPT !.at = @ + Len(entry.image)]
        ELSE LET closed == b.open[depth]
                 node == NodeOf(closed.name, closed.placed)
             IN  [b EXCEPT !.open =
                     [SubSeq(b.open, 1, depth - 1) EXCEPT ![depth - 1].placed =
                         Append(@, [slot |-> closed.name, element |-> node])]]

\* the entries from the i-th on
RECURSIVE BuildFrom(_, _, _)
BuildFrom(b, read, i) ==
    IF i > Len(read) THEN b
    ELSE IF i = Len(read) THEN BuildStep(b, read[i])
    ELSE LET mid == (i + Len(read)) \div 2
             half == BuildFrom(b, SubSeq(read, 1, mid), i)
         IN  IF half.at >= 0 THEN BuildFrom(half, read, mid + 1) ELSE half  \* (an offset is never negative)

\* the node `name` whose elements are laid out as `items` from offset `at`
BuildRead(read, at) ==
    LET built == BuildFrom([at |-> at, open |-> <<[name |-> "", placed |-> <<>>]>>],
                           read, 1)
    IN  built.open[1].placed[1].element

\* the tokens of a method body: identifiers and single characters
LexItems(text, i) ==
    LET n == Len(text)
        \* the character goes on an identifier begun before it
        goesOn(k) == \E s \in i..(k - 1) :
                        /\ IsIdentStart(text[s])
                        /\ \A j \in s..k : IsIdentPart(text[j])
        begins == SelectSeq([k \in 1..n |-> k], LAMBDA k : k >= i /\ ~goesOn(k))
        lastOf(b) == IF b < Len(begins) THEN begins[b + 1] - 1 ELSE n
    IN  [b \in 1..Len(begins) |->
            IF IsSpace(text[begins[b]]) THEN GapItem(<<text[begins[b]]>>)
            ELSE IF IsIdentStart(text[begins[b]])
            THEN TokenItem("Identifier", SubSeq(text, begins[b], lastOf(b)))
            ELSE TokenItem("Punctuation", <<text[begins[b]]>>)]

SlotOfModifier(word) ==
    IF word = W_public THEN "Public"
    ELSE IF word = W_private THEN "Private"
    ELSE IF word = W_protected THEN "Protected"
    ELSE "Static"

ModifierItems(nodeName, mods) ==
    ConcatAll([k \in 1..Len(mods) |->
        <<NodeItem(nodeName, <<TokenItem(SlotOfModifier(mods[k]), mods[k])>>),
          GapItem(<<SPACE>>)>>])

\* int x  /  int x,int y ...
ParameterItems(params) ==
    IF params = 0 THEN <<>>
    ELSE <<NodeItem("formalParameterList",
             ConcatAll([k \in 1..params |->
                 (IF k > 1 THEN <<TokenItem("Comma", <<44>>)>> ELSE <<>>)
                 \o <<ChainItem(<<"formalParameter", "variableParaRegularParameter">>,
                        <<NodeItem("unannType", <<TokenItem("Int", W_int)>>),
                          GapItem(<<SPACE>>),
                          NodeItem("variableDeclaratorId",
                              <<TokenItem("Identifier", <<119 + k>>)>>)>>)>>]))>>

\* a method whose body declares a local class, then holds `rest`
NestingMethod(name, local, rest) ==
    [kind |-> "method", mods |-> <<>>, name |-> name, params |-> 0,
     body |-> <<rest>>, local |-> local]

RECURSIVE ClassItems(_)

MethodItems(m) ==
    <<NodeItem("methodDeclaration",
        ModifierItems("methodModifier", m.mods)
        \o <<NodeItem("methodHeader",
               <<NodeItem("result", <<TokenItem("Void", W_void)>>),
                 GapItem(<<SPACE>>),
                 NodeItem("methodDeclarator",
                     <<TokenItem("Identifier", m.name), TokenItem("LBrace", <<40>>)>>
                     \o ParameterItems(m.params)
                     \o <<TokenItem("RBrace", <<41>>)>>)>>),
             IF m.body = <<>>
             THEN NodeItem("methodBody", <<TokenItem("Semicolon", <<SEMI>>)>>)
             ELSE ChainItem(<<"methodBody", "block">>,
                      <<TokenItem("LCurly", <<LCURLY>>)>>
                      \o (IF "local" \in DOMAIN m
                          THEN <<NodeItem("blockStatements",
                                   <<NodeItem("classDeclaration", ClassItems(m.local))>>
                                   \o LexItems(m.body[1], 1))>>
                          ELSE IF \A i \in 1..Len(m.body[1]) : IsSpace(m.body[1][i])
                          THEN LexItems(m.body[1], 1)
                          ELSE <<NodeItem("blockStatements", LexItems(m.body[1], 1))>>)
                      \o <<TokenItem("RCurly", <<125>>)>>)>>)>>

FieldItems(m) ==
    <<NodeItem("fieldDeclaration",
        ModifierItems("fieldModifier", m.mods)
        \o <<NodeItem("unannType", <<TokenItem("Int", W_int)>>),
             GapItem(<<SPACE>>),
             ChainItem(<<"variableDeclaratorList", "variableDeclarator",
                         "variableDeclaratorId">>,
                       <<TokenItem("Identifier", m.name)>>),
             TokenItem("Semicolon", <<SEMI>>)>>)>>

ClassItems(file) ==
    LET memberItems(m) ==
            <<ChainItem(<<"classBodyDeclaration", "classMemberDeclaration">>,
                IF m.kind = "method" THEN MethodItems(m)
                ELSE IF m.kind = "field" THEN FieldItems(m)
                ELSE <<NodeItem("classDeclaration", ClassItems(m.file))>>)>>
    IN  <<NodeItem("normalClassDeclaration",
            <<TokenItem("Class", W_class), GapItem(<<SPACE>>),
              NodeItem("typeIdentifier", <<TokenItem("Identifier", file.name)>>)>>
            \o (IF file.super = <<>> THEN <<>>
                ELSE <<GapItem(<<SPACE>>),
                       NodeItem("superclass",
                           <<TokenItem("Extends", W_extends), GapItem(<<SPACE>>),
                             NodeItem("classType",
                                 <<TokenItem("Identifier", file.super[1])>>)>>)>>)
            \o <<NodeItem("classBody",
                   <<TokenItem("LCurly", <<LCURLY>>)>>
                   \o ConcatAll([k \in 1..Len(file.members) |->
                          (IF file.sep = <<>> THEN <<>> ELSE <<GapItem(file.sep)>>)
                          \o memberItems(file.members[k])])
                   \o <<TokenItem("RCurly", <<125>>)>>)>>)>>

\* the compilation unit around the items of its one class
UnitItems(items) ==
    <<NodeItem("compilationUnit",
               <<ChainItem(<<"ordinaryCompilationUnit", "typeDeclaration",
                             "classDeclaration">>,
                           items)>>)>>

Method(mods, name, params, body) ==
    [kind |-> "method", mods |-> mods, name |-> name, params |-> params, body |-> body]
Field(mods, name) == [kind |-> "field", mods |-> mods, name |-> name]
ClassFile(name, super, sep, members) ==
    [name |-> name, super |-> super, sep |-> sep, members |-> members]

\* the class files of the call-graph cases: class G with methods a and b
\* of no or one parameter, whose bodies call a and b
MaxMethods == 2

CallB == <<98, 40, 41, 59>>                \* b();
CallA == <<97, 40, 41, 59>>                \* a();
CallBx == <<98, 40, 120, 41, 59>>          \* b(x);

GraphMethods ==
    { Method(<<>>, <<97>>, 0, << <<>> >>),               \* void a(){}
      Method(<<>>, <<97>>, 0, <<CallB>>),                \* void a(){b();}
      Method(<<>>, <<97>>, 0, <<CallB \o CallB>>),       \* void a(){b();b();}
      Method(<<>>, <<97>>, 0, <<CallBx \o CallA>>),      \* void a(){b(x);a();}
      Method(<<>>, <<97>>, 1, <<CallB>>),                \* void a(int x){b();}
      Method(<<>>, <<98>>, 0, <<>>),                     \* void b();
      Method(<<>>, <<98>>, 0, << <<>> >>),               \* void b(){}
      Method(<<>>, <<98>>, 0, <<CallB>>),                \* void b(){b();}
      Method(<<>>, <<98>>, 0, <<CallA>>),                \* void b(){a();}
      Method(<<>>, <<98>>, 1, <<CallA>>) }               \* void b(int x){a();}

RECURSIVE SeqsUpTo(_, _)
SeqsUpTo(elements, n) ==
    IF n = 0 THEN {<<>>}
    ELSE LET shorter == SeqsUpTo(elements, n - 1)
         IN  shorter \cup {Append(s, e) : s \in shorter, e \in elements}

GraphFiles ==
    {ClassFile(<<71>>, <<>>, sep, members) :
        sep \in {<<>>, <<NEWLINE>>},
        members \in SeqsUpTo(GraphMethods, MaxMethods) \ {<<>>}}

\* the class files of the visibility cases: class V with one field or one
\* method, under every sequence of different modifiers
MaxModifiers == 2
ModifierWords == {W_public, W_private, W_protected, W_static}

ModifierLists ==
    {mods \in SeqsUpTo(ModifierWords, MaxModifiers) :
        \A i \in 1..Len(mods), j \in 1..Len(mods) : i # j => mods[i] # mods[j]}

MemberFiles ==
    {ClassFile(<<86>>, <<>>, <<>>, <<member>>) :
        member \in {Field(mods, <<112>>) : mods \in ModifierLists}
                   \cup {Method(mods, <<109>>, 0, << <<>> >>) : mods \in ModifierLists}}

\* the class files of the system-service cases: class S, with or without
\* the superclass SystemService, and members among
\*   void onStart(){}   void onBootPhase(int x){}   void a(){addService();}
\*   class B extends SystemService{}
ServiceMembers ==
    { Method(<<>>, W_onStart, 0, << <<>> >>),
      Method(<<>>, W_onBootPhase, 1, << <<>> >>),
      Method(<<>>, <<97>>, 0, <<W_addService \o <<40, 41, 59>>>>),
      [kind |-> "class", file |-> ClassFile(<<66>>, <<W_SystemService>>, <<>>, <<>>)] }

ServiceFiles ==
    {ClassFile(<<83>>, super, sep, members) :
        super \in {<<>>, <<W_SystemService>>},
        sep \in {<<>>, <<NEWLINE>>},
        members \in SeqsUpTo(ServiceMembers, MaxMethods)}

\* the class file of the lifecycle case, one member to a line:
\*   class Z{
\*   void startOtherServices(){}
\*   void a(){}
\*   void main(){}
\*   void main(int x){}}
LifecycleFile ==
    ClassFile(<<90>>, <<>>, <<NEWLINE>>,
              <<Method(<<>>, W_startOtherServices, 0, << <<>> >>),
                Method(<<>>, <<97>>, 0, << <<>> >>),
                Method(<<>>, W_main, 0, << <<>> >>),
                Method(<<>>, W_main, 1, << <<>> >>)>>)

\* the class files of the nesting cases: class G with the method
\*   void a(){class L{void c(){b();}}}
\* before or behind one of the methods b, or on its own
LocalClass == ClassFile(<<76>>, <<>>, <<>>, <<Method(<<>>, <<99>>, 0, <<CallB>>)>>)

NestedFiles ==
    {ClassFile(<<71>>, <<>>, sep, members) :
        sep \in {<<>>, <<NEWLINE>>},
        members \in
            {<<NestingMethod(<<97>>, LocalClass, <<>>)>>}
            \cup {<<NestingMethod(<<97>>, LocalClass, <<>>), m>> :
                     m \in {g \in GraphMethods : g.name = <<98>>}}
            \cup {<<m, NestingMethod(<<97>>, LocalClass, <<>>)>> :
                     m \in {g \in GraphMethods : g.name = <<98>>}}}

JavaFiles ==
    GraphFiles \cup MemberFiles \cup ServiceFiles \cup {LifecycleFile} \cup NestedFiles

\* the texts the parser accepts besides, each with its tree
\* the class files, written out and parsed once
\* the files laid out, and their layouts read in order
LaidOut == {[file |-> file, items |-> ClassItems(file)] : file \in JavaFiles}

ReadOut == {[file |-> e.file, read |-> ItemsRead(UnitItems(e.items))] : e \in LaidOut}

ReadOf(file) ==
    IF file \in JavaFiles THEN (CHOOSE e \in ReadOut : e.file = file).read
    ELSE ItemsRead(UnitItems(ClassItems(file)))

WrittenOut(file) == Text(0, ReadText(ReadOf(file)))

JavaFileCst(file) == BuildRead(ReadOf(file), 0)

ParsedFiles ==
    {[file |-> file, text |-> WrittenOut(file), cst |-> JavaFileCst(file)] :
        file \in JavaFiles}

JavaFileText(file) ==
    IF file \in JavaFiles THEN (CHOOSE e \in ParsedFiles : e.file = file).text
    ELSE WrittenOut(file)

\* the tree of a text of white space and semicolons: one empty type
\* declaration for each semicolon
RECURSIVE emptyDeclarationsFrom(_, _)
emptyDeclarationsFrom(source, i) ==
    IF i > Len(source.body) THEN <<>>
    ELSE (IF source.body[i] = SEMI
          THEN <<Node("typeDeclaration",
                      << <<"Semicolon", <<Tok(<<SEMI>>, source.pad + i - 1)>>>> >>)>>
          ELSE <<>>)
         \o emptyDeclarationsFrom(source, i + 1)

parse(source) ==
    IF source = SvcSource THEN [threw |-> FALSE, cst |-> SvcCst]
    ELSE IF source = MainSource THEN [threw |-> FALSE, cst |-> MainCst]
    ELSE IF \A i \in 1..Len(source.body) : source.body[i] = SEMI \/ IsSpace(source.body[i])
    THEN [threw |-> FALSE, cst |-> CompilationUnit(emptyDeclarationsFrom(source, 1))]
    ELSE IF StartsWithAt(source.body, 1, W_class)
    THEN LET hits == {e \in ParsedFiles : e.text = source}
         IN  IF hits = {} THEN [threw |-> TRUE]
             ELSE [threw |-> FALSE, cst |-> (CHOOSE e \in hits : TRUE).cst]
    ELSE [threw |-> TRUE]

-----------------------------------------------------------------------------
(* javaAst.ts: analyzeJavaSource.  The result is [threw |-> TRUE] when the *)
(* parser's error leaves the function, [threw |-> FALSE, value |-> ...]    *)
(* when it returns.                                                        *)

buildMethodSummary(method) ==
    [name |-> method.name,
     paramsCount |-> method.paramsCount,
     visibility |-> method.visibility,
     isStatic |-> method.isStatic,
     startLine |-> method.startLine]

analysisOfTree(cst, source, fallbackClassName) ==
    LET analysis(fields, methods, classNames, className, invocations) ==
            [summary |->
                [className |-> className,
                 packageName |-> extractPackageName(cst, source),
                 fields |-> fields,
                 methods |-> [k \in 1..Len(methods) |-> buildMethodSummary(methods[k])],
                 innerClasses |-> IF classNames = <<>> THEN <<>> ELSE Tail(classNames)],
             methodDecls |-> methods,
             methodInvocations |-> invocations,
             systemService |->
                extractSystemServiceSummary(
                    className, findFirstNode(cst, "normalClassDeclaration"),
                    methods, invocations, source)]
        extracted(lineStarts, fieldNodes, methods, classNames) ==
            analysis(ConcatAll([k \in 1..Len(fieldNodes) |->
                         extractFieldMembers(fieldNodes[k], source, lineStarts)]),
                     methods, classNames,
                     IF classNames # <<>> THEN classNames[1] ELSE fallbackClassName,
                     extractMethodInvocations(methods, source, lineStarts))
        found(lineStarts, fieldNodes, methodNodes) ==
            extracted(lineStarts, fieldNodes,
                      ConcatAll([k \in 1..Len(methodNodes) |->
                          extractMethodMembers(methodNodes[k], source, lineStarts)]),
                      extractClassNames(cst))
    IN  found(buildLineIndex(source),
              findAllNodes(cst, "fieldDeclaration"),
              findAllNodes(cst, "methodDeclaration"))

\* a faulty analyzeJavaSource, for comparison: it catches the parser's error
\* and analyzes an empty tree
analyzeJavaSourceCatching(source, fallbackClassName) ==
    LET parsed == parse(source)
    IN  [threw |-> FALSE,
         value |-> analysisOfTree(IF parsed.threw THEN CompilationUnit(<<>>) ELSE parsed.cst,
                                  source, fallbackClassName)]

analyzeJavaSource(source, fallbackClassName) ==
    LET parsed == parse(source)
    IN  IF parsed.threw THEN [threw |-> TRUE]
        ELSE [threw |-> FALSE,
              value |-> analysisOfTree(parsed.cst, source, fallbackClassName)]

-----------------------------------------------------------------------------
(* methodGraph.ts: the call graph of the method under the cursor.  A       *)
(* graph is an optional value; a method ref is [className, methodName,    *)
(* filePath, line].                                                        *)

findMethodAtOffset(methods, offset) ==
    FirstOf(SelectSeq(methods,
                LAMBDA method : offset >= method.startOffset /\ offset <= method.endOffset))

\* method.bodyStartOffset ?? method.startOffset, method.bodyEndOffset ?? method.endOffset
rangeOf(method) ==
    [start |-> IF method.bodyStartOffset # <<>> THEN method.bodyStartOffset[1]
               ELSE method.startOffset,
     end |-> IF method.bodyEndOffset # <<>> THEN method.bodyEndOffset[1]
             ELSE method.endOffset]

\* a faulty search, for comparison: the last declaration whose body holds
\* the offset
findEnclosingMethodInnermost(methods, offset) ==
    LET holding == SelectSeq(methods,
                       LAMBDA method : offset >= rangeOf(method).start
                                       /\ offset <= rangeOf(method).end)
    IN  IF holding = <<>> THEN <<>> ELSE <<holding[Len(holding)]>>

findEnclosingMethod(methods, offset) ==
    FirstOf(SelectSeq(methods,
                LAMBDA method : offset >= rangeOf(method).start
                                /\ offset <= rangeOf(method).end))

buildMethodLabel(className, method) ==
    className \o <<46>> \o method.name \o <<40>> \o decimal(method.paramsCount) \o <<41>>

methodRef(className, method, filePath) ==
    [className |-> className, methodName |-> method.name, filePath |-> filePath,
     line |-> method.startLine]

\* a faulty range test, for comparison: every invocation of the file passes
outsideBodyNever(invocation, bodyStart, bodyEnd) == FALSE

\* invocation.startOffset < bodyStart || invocation.startOffset > bodyEnd
outsideBody(invocation, bodyStart, bodyEnd) ==
    invocation.startOffset < bodyStart \/ invocation.startOffset > bodyEnd

\* a faulty resolution, for comparison: by name alone
declaresByName(decl, invocation) == decl.name = invocation.name

\* decl.name === invocation.name && decl.paramsCount === invocation.argsCount
declares(decl, invocation) ==
    decl.name = invocation.name /\ decl.paramsCount = invocation.argsCount

RECURSIVE findCalleesFrom(_, _, _, _, _, _)
findCalleesFrom(className, method, invocations, methods, filePath, i) ==
    IF i > Len(invocations) THEN <<>>
    ELSE LET invocation == invocations[i]
             rest == findCalleesFrom(className, method, invocations, methods, filePath, i + 1)
         IN  IF outsideBody(invocation, rangeOf(method).start, rangeOf(method).end)
             THEN rest
             ELSE LET candidate == FirstOf(SelectSeq(methods,
                                       LAMBDA decl : declares(decl, invocation)))
                  IN  IF candidate # <<>>
                      THEN <<methodRef(className, candidate[1], filePath)>> \o rest
                      ELSE rest

findCalleesInFile(className, method, invocations, methods, filePath) ==
    findCalleesFrom(className, method, invocations, methods, filePath, 1)

\* a faulty match, for comparison: by name alone
callsMethodByName(invocation, currentMethod) == invocation.name = currentMethod.name

\* !(invocation.name !== currentMethod.name
\*   || invocation.argsCount !== currentMethod.paramsCount)
callsMethod(invocation, currentMethod) ==
    ~(invocation.name # currentMethod.name
      \/ invocation.argsCount # currentMethod.paramsCount)

\* `${caller.name}:${caller.startLine}`
callerKey(caller) == caller.name \o <<58>> \o decimal(caller.startLine)

\* a faulty Set.has, for comparison: nothing was ever seen
seenHasNever(seen, key) == FALSE

seenHas(seen, key) == key \in seen

\* the loop over the invocations from the i-th on, `seen` the keys so far
RECURSIVE callersFrom(_, _, _, _, _, _)
callersFrom(analysis, currentMethod, className, filePath, i, seen) ==
    IF i > Len(analysis.methodInvocations) THEN <<>>
    ELSE LET invocation == analysis.methodInvocations[i]
             caller == findEnclosingMethod(analysis.methodDecls, invocation.startOffset)
         IN  IF ~callsMethod(invocation, currentMethod) \/ caller = <<>>
                \/ seenHas(seen, callerKey(caller[1]))
             THEN callersFrom(analysis, currentMethod, className, filePath, i + 1, seen)
             ELSE <<methodRef(className, caller[1], filePath)>>
                  \o callersFrom(analysis, currentMethod, className, filePath, i + 1,
                                 seen \cup {callerKey(caller[1])})

\* buildMethodCallGraph(editor, token) from the point where getAnalysis has
\* returned `analysis` (<<>>: undefined); offset is
\* document.offsetAt(editor.selection.active), fileName is document.fileName
buildMethodCallGraph(analysis, offset, fileName) ==
    IF analysis = <<>> THEN <<>>
    ELSE LET currentMethod == findMethodAtOffset(analysis[1].methodDecls, offset)
         IN  IF currentMethod = <<>> THEN <<>>
             ELSE LET className == analysis[1].summary.className
                  IN  <<[method |-> buildMethodLabel(className, currentMethod[1]),
                         callers |-> callersFrom(analysis[1], currentMethod[1], className,
                                                 fileName, 1, {}),
                         callees |-> findCalleesInFile(className, currentMethod[1],
                                         analysis[1].methodInvocations,
                                         analysis[1].methodDecls, fileName)]>>

-----------------------------------------------------------------------------
(* javaParser.ts: parseJavaMembers, the member list of the first viewer *)

extractClassName(root) ==
    LET classNode == findFirstNode(root, "normalClassDeclaration")
    IN  IF classNode = <<>> THEN <<>>
        ELSE LET identifierNode == findFirstNode(classNode[1], "classDeclarator")
             IN  IF identifierNode = <<>> THEN <<>>
                 ELSE LET nameToken ==
                              FirstOf(SelectSeq(collectTokens(identifierNode[1]),
                                  LAMBDA t : t.image # <<>> /\ t.image # W_class))
                      IN  IF nameToken = <<>> THEN <<>> ELSE <<nameToken[1].image>>

fieldMembers(fieldNode, source) ==
    LET tokens == collectTokens(fieldNode)
        typeNode == FirstSome(<<findFirstNode(fieldNode, "unannType"),
                                findFirstNode(fieldNode, "typeType"),
                                findFirstNode(fieldNode, "type")>>)
        typeText == tokensToText(
            IF typeNode = <<>> THEN <<>> ELSE collectTokens(typeNode[1]), source)
        declaratorIds == findAllNodes(fieldNode, "variableDeclaratorId")
        memberOf(declaratorId) ==
            LET nameToken == FirstOf(SelectSeq(collectTokens(declaratorId),
                                               LAMBDA t : t.image # <<>>))
            IN  IF nameToken = <<>> THEN <<>>
                ELSE <<[name |-> nameToken[1].image,
                        kind |-> "field",
                        access |-> getAccess(tokens),
                        signature |-> IF typeText # <<>>
                                      THEN typeText \o <<SPACE>> \o nameToken[1].image
                                      ELSE nameToken[1].image,
                        startOffset |-> nameToken[1].startOffset]>>
    IN  ConcatAll([k \in 1..Len(declaratorIds) |-> memberOf(declaratorIds[k])])

methodMembers(methodNode, source) ==
    LET tokens == collectTokens(methodNode)
        declaratorNode == findFirstNode(methodNode, "methodDeclarator")
    IN  IF declaratorNode = <<>> THEN <<>>
        ELSE
        LET nameToken == FirstOf(SelectSeq(collectTokens(declaratorNode[1]),
                                           LAMBDA t : t.image # <<>>))
            name == IF nameToken = <<>> THEN W_method ELSE nameToken[1].image
            paramListNode ==
                FirstSome(<<findFirstNode(declaratorNode[1], "formalParameterList"),
                            findFirstNode(declaratorNode[1], "formalParameter")>>)
            paramText == tokensToText(
                IF paramListNode = <<>> THEN <<>> ELSE collectTokens(paramListNode[1]),
                source)
            resultNode == findFirstNode(methodNode, "result")
            resultText == tokensToText(
                IF resultNode = <<>> THEN <<>> ELSE collectTokens(resultNode[1]), source)
            call == name \o <<40>> \o paramText \o <<41>>
        IN  <<[name |-> name,
               kind |-> "method",
               access |-> getAccess(tokens),
               signature |-> IF resultText # <<>> THEN resultText \o <<SPACE>> \o call
                             ELSE call,
               startOffset |-> IF nameToken = <<>> THEN 0 ELSE nameToken[1].startOffset]>>

walk(root, source) ==
    LET met == SelectSeq(Visited(root, {"fieldDeclaration", "methodDeclaration",
                                        "constructorDeclaration"}),
                         isCstNode)
    IN  ConcatAll([k \in 1..Len(met) |->
            IF met[k].name = "fieldDeclaration" THEN fieldMembers(met[k], source)
            ELSE IF met[k].name = "methodDeclaration" THEN methodMembers(met[k], source)
            ELSE <<>>])

\* a faulty parseJavaMembers, for comparison: without its try/catch
parseJavaMembersNoCatch(source, fallbackClassName) ==
    LET parsed == parse(source)
    IN  IF parsed.threw THEN [threw |-> TRUE]
        ELSE LET className == extractClassName(parsed.cst)
             IN  [threw |-> FALSE,
                  value |-> [className |-> IF className # <<>> THEN className[1]
                                            ELSE fallbackClassName,
                             members |-> walk(parsed.cst, source)]]

parseJavaMembers(source, fallbackClassName) ==
    LET parsed == parse(source)
    IN  IF parsed.threw
        THEN [threw |-> FALSE,
              value |-> [className |-> fallbackClassName, members |-> <<>>]]
        ELSE LET className == extractClassName(parsed.cst)
             IN  [threw |-> FALSE,
                  value |-> [className |-> IF className # <<>> THEN className[1]
                                            ELSE fallbackClassName,
                             members |-> walk(parsed.cst, source)]]

-----------------------------------------------------------------------------
(* The documents the host hands to the cache *)

UriZygote == "file:///w/ZygoteInit.java"
UriServer == "file:///w/SystemServer.java"
Uris == {UriZygote, UriServer}

\* path.basename(document.fileName, ".java")
baseName(uri) ==
    IF uri = UriZygote
    THEN <<90, 121, 103, 111, 116, 101, 73, 110, 105, 116>>             \* ZygoteInit
    ELSE <<83, 121, 115, 116, 101, 109, 83, 101, 114, 118, 101, 114>>   \* SystemServer

MaxBodyLen == 1
BodyAlphabet == {SEMI, LCURLY}

RECURSIVE StringsUpTo(_, _)
StringsUpTo(alphabet, n) ==
    IF n = 0 THEN {<<>>}
    ELSE LET shorter == StringsUpTo(alphabet, n - 1)
         IN  shorter \cup {Append(s, c) : s \in shorter, c \in alphabet}

\* short texts, and the same texts behind MAX_PARSE_BYTES spaces: of
\* exactly MAX_PARSE_BYTES bytes, and of more
Texts ==
    {Text(pad, body) : pad \in {0, MAX_PARSE_BYTES},
                       body \in StringsUpTo(BodyAlphabet, MaxBodyLen)}

Documents ==
    [uri : Uris, languageId : {"java"}, text : Texts]
    \cup [uri : Uris, languageId : {"plaintext"},
          text : {Text(0, <<>>), Text(0, <<SEMI>>)}]

-----------------------------------------------------------------------------
(* javaCache.ts: JavaFileCache.  The Map is the set of its entries         *)
(* [key, hash, size, analysis], analysis being the identity of an object   *)
(* of the heap.  A heap object is [analysis, source]: the JavaFileAnalysis *)
(* and, for the record, the text it was made from.                         *)

mapGet(map, key) ==
    LET found == {e \in map : e.key = key}
    IN  IF found = {} THEN <<>> ELSE <<CHOOSE e \in found : TRUE>>

\* a faulty Map.set, for comparison: the older entry of the key stays
mapSetKeepingOld(map, key, value) ==
    map \cup {[key |-> key, hash |-> value.hash, size |-> value.size,
               analysis |-> value.analysis]}

\* a faulty insert, for comparison: the entry is not stored
mapSetDropped(map, key, value) == map

mapSet(map, key, value) ==
    {e \in map : e.key # key}
    \cup {[key |-> key, hash |-> value.hash, size |-> value.size,
           analysis |-> value.analysis]}

\* a faulty Map.delete, for comparison: nothing is removed
mapDeleteNothing(map, key) == map

mapDelete(map, key) == {e \in map : e.key # key}

\* a faulty language test, for comparison: every document passes
isJavaAlways(document) == TRUE

isJava(document) == document.languageId = "java"

\* a faulty size test, for comparison: >= for >
exceedsLimitInclusive(size) == size >= MAX_PARSE_BYTES

exceedsLimit(size) == size > MAX_PARSE_BYTES

\* a faulty hit test, for comparison: no entry ever matches
isCacheHitNever(cached, hash, size) == FALSE

isCacheHit(cached, hash, size) ==
    cached # <<>> /\ cached[1].hash = hash /\ cached[1].size = size

\* the object literal of the size cut-off
emptyAnalysis(document) ==
    [summary |-> [className |-> baseName(document.uri),
                  packageName |-> <<>>,
                  fields |-> <<>>,
                  methods |-> <<>>,
                  innerClasses |-> <<>>],
     methodDecls |-> <<>>,
     methodInvocations |-> <<>>,
     systemService |-> <<>>]

\* What a call does: the value returned (<<>> is undefined, <<ref>> an
\* object), the Map after it, the object it created at newRef (if any),
\* and whether it hashed the text, called the parser, and the parser threw.
Returns(result, map, created, hashed, parsed, threw) ==
    [result |-> result, cache |-> map, created |-> created,
     hashed |-> hashed, parsed |-> parsed, threw |-> threw]

\* a faulty size cut-off, for comparison: the degenerate result is stored
sizeCutOffCaching(map, document, size, newRef) ==
    Returns(<<newRef>>,
            mapSet(map, document.uri,
                   [hash |-> <<0, 0>>, size |-> size, analysis |-> newRef]),
            <<emptyAnalysis(document)>>, FALSE, FALSE, FALSE)

sizeCutOff(map, document, size, newRef) ==
    Returns(<<newRef>>, map, <<emptyAnalysis(document)>>, FALSE, FALSE, FALSE)

\* a faulty getAnalysis, for comparison: the token is not looked at
getAnalysisIgnoringToken(map, document, cancelled, newRef) ==
    IF ~isJava(document) THEN Returns(<<>>, map, <<>>, FALSE, FALSE, FALSE)
    ELSE IF exceedsLimit(byteLength(document.text))
    THEN sizeCutOff(map, document, byteLength(document.text), newRef)
    ELSE
    LET hash == hashText(document.text)
        size == byteLength(document.text)
        cached == mapGet(map, document.uri)
        analysis == analyzeJavaSource(document.text, baseName(document.uri))
    IN  IF isCacheHit(cached, hash, size)
        THEN Returns(<<cached[1].analysis>>, map, <<>>, TRUE, FALSE, FALSE)
        ELSE IF analysis.threw THEN Returns(<<>>, map, <<>>, TRUE, TRUE, TRUE)
        ELSE Returns(<<newRef>>,
                     mapSet(map, document.uri,
                            [hash |-> hash, size |-> size, analysis |-> newRef]),
                     <<analysis.value>>, TRUE, TRUE, FALSE)

\* getAnalysis(document, token) on the Map `map`; cancelled is
\* token?.isCancellationRequested, newRef the identity a new object gets
getAnalysis(map, document, cancelled, newRef) ==
    IF ~isJava(document) THEN Returns(<<>>, map, <<>>, FALSE, FALSE, FALSE)
    ELSE
    LET text == document.text
        size == byteLength(text)
    IN  IF exceedsLimit(size) THEN sizeCutOff(map, document, size, newRef)
        ELSE
        LET fileKey == document.uri
            hash == hashText(text)
            cached == mapGet(map, fileKey)
        IN  IF isCacheHit(cached, hash, size)
            THEN Returns(<<cached[1].analysis>>, map, <<>>, TRUE, FALSE, FALSE)
            ELSE IF cancelled THEN Returns(<<>>, map, <<>>, TRUE, FALSE, FALSE)
            ELSE
            LET stored(analysis) ==
                    IF analysis.threw THEN Returns(<<>>, map, <<>>, TRUE, TRUE, TRUE)
                    ELSE Returns(<<newRef>>,
                                 mapSet(map, fileKey,
                                        [hash |-> hash, size |-> size, analysis |-> newRef]),
                                 <<analysis.value>>, TRUE, TRUE, FALSE)
            IN  stored(analyzeJavaSource(text, baseName(document.uri)))

\* a faulty getAnalysisForUri, for comparison: without its token check
getAnalysisForUriUnchecked(map, document, cancelled, newRef) ==
    getAnalysis(map, document, cancelled, newRef)

\* getAnalysisForUri(uri, token) from the point where openTextDocument has
\* delivered `document`: nothing happens before it
getAnalysisForUri(map, document, cancelled, newRef) ==
    IF cancelled THEN Returns(<<>>, map, <<>>, FALSE, FALSE, FALSE)
    ELSE getAnalysis(map, document, cancelled, newRef)

\* clear(uri); uri is <<>> when the argument is omitted
clear(map, uri) ==
    IF uri = <<>> THEN {} ELSE mapDelete(map, uri[1])

-----------------------------------------------------------------------------
(* The cache as a state machine: calls of getAnalysis, getAnalysisForUri   *)
(* and clear, in any order, on any document.  `last` records the most      *)
(* recent call: its arguments, its result, the Map before it, and          *)
(*   evicted     the call before it was a clear that removed the entry of  *)
(*               this identity, made from this very text (the object of    *)
(*               that entry).                                              *)
(* Where the calls are followed over a longer run (probe.fn = "calls"),    *)
(* `probe` remembers per identity the earlier call that a call of          *)
(* getAnalysis repeats: probe.seen[uri] is the first call of getAnalysis   *)
(* for the Java document `uri` that returned an analysis, or else the      *)
(* latest one, since the last clear of the identity and the last call for  *)
(* it with another text; probe.first is what probe.seen held for the       *)
(* identity of the most recent call when that call was made, if it was     *)
(* getAnalysis for the same text.                                          *)

NoText == Text(0, <<>>)

NoCall ==
    [op |-> "none", uri |-> <<>>, languageId |-> "java", text |-> NoText,
     cancelled |-> FALSE, result |-> <<>>, hashed |-> FALSE, parsed |-> FALSE,
     threw |-> FALSE,
     before |-> {}, evicted |-> <<>>]

RefsOf(map) == {e.analysis : e \in map}
OptRefs(opt) == {opt[k] : k \in 1..Len(opt)}

\* the objects a state still refers to
LiveRefs(map, call) ==
    RefsOf(map) \cup RefsOf(call.before) \cup OptRefs(call.result)
    \cup OptRefs(call.evicted)

\* the identity of the next object: one no reference in use denotes
\* the objects the remembered calls returned
SeenRefs ==
    IF probe.fn = "calls"
    THEN UNION {OptRefs(probe.seen[uri][1].result) :
                   uri \in {u \in DOMAIN probe.seen : probe.seen[u] # <<>>}}
    ELSE {}

NewRef ==
    LET used == RefsOf(cache) \cup RefsOf(last.before) \cup OptRefs(last.result)
                \cup SeenRefs
    IN  CHOOSE r \in 1..(Cardinality(used) + 1) :
            r \notin used /\ \A q \in 1..(r - 1) : q \in used

HeapAfter(map, call, created, source) ==
    [r \in LiveRefs(map, call) |->
        IF created # <<>> /\ <<r>> = call.result
        THEN [analysis |-> created[1], source |-> source]
        ELSE heap[r]]

\* the entry a clear just removed, when it was made from `document`'s text
evictedBy(call, document) ==
    IF call.op = "clear" /\ (call.uri = <<>> \/ call.uri = <<document.uri>>)
    THEN LET entry == mapGet(call.before, document.uri)
         IN  IF entry # <<>> /\ heap[entry[1].analysis].source = document.text
             THEN <<entry[1].analysis>>
             ELSE <<>>
    ELSE <<>>

Called(op, document, cancelled, out) ==
    [op |-> op, uri |-> <<document.uri>>, languageId |-> document.languageId,
     text |-> document.text, cancelled |-> cancelled,
     result |-> out.result, hashed |-> out.hashed, parsed |-> out.parsed,
     threw |-> out.threw,
     before |-> cache,
     evicted |-> IF document.languageId = "java" THEN evictedBy(last, document)
                 ELSE <<>>]

\* the remembered calls before any call
NoCalls == [fn |-> "calls", ops |-> 0, seen |-> [uri \in Uris |-> <<>>], first |-> <<>>]

\* the runs that are followed have MaxOps operations at most
MaxOps == 4
MayCall == probe.fn = "calls" => probe.ops < MaxOps

\* a remembered call once another operation has come after it
aged(call) == IF call = <<>> THEN <<>> ELSE <<[call[1] EXCEPT !.apart = TRUE]>>

\* the earlier call that getAnalysis(document) repeats, if any
repeated(p, document) ==
    IF /\ isJava(document) /\ p.seen[document.uri] # <<>>
       /\ p.seen[document.uri][1].text = document.text
    THEN p.seen[document.uri]
    ELSE <<>>

\* the remembered calls after an operation that did not look at the Map: a
\* document that is not Java leaves getAnalysis before anything else, a set
\* token leaves getAnalysisForUri before getAnalysis is called
afterNoCall(p) ==
    IF p.fn # "calls" THEN p
    ELSE [p EXCEPT !.ops = @ + 1, !.first = <<>>,
                   !.seen = [u \in Uris |-> aged(p.seen[u])]]

\* the remembered calls after getAnalysis(document, token) returned `out`
afterCall(p, document, cancelled, out) ==
    IF p.fn # "calls" \/ ~isJava(document) THEN afterNoCall(p)
    ELSE LET first == repeated(p, document)
             this == <<[text |-> document.text, cancelled |-> cancelled,
                        result |-> out.result, apart |-> FALSE]>>
         IN  [p EXCEPT !.ops = @ + 1, !.first = first,
                       !.seen = [u \in Uris |->
                                    IF u # document.uri THEN aged(p.seen[u])
                                    ELSE IF first # <<>> /\ first[1].result # <<>>
                                    THEN aged(first)
                                    ELSE this]]

\* the remembered calls after clear(uri)
afterClear(p, uri) ==
    IF p.fn # "calls" THEN p
    ELSE [p EXCEPT !.ops = @ + 1, !.first = <<>>,
                   !.seen = [u \in Uris |->
                                IF uri = <<>> \/ uri = <<u>> THEN <<>>
                                ELSE aged(p.seen[u])]]

Apply(op, document, cancelled, out) ==
    /\ cache' = out.cache
    /\ last' = Called(op, document, cancelled, out)
    /\ heap' = HeapAfter(cache', last', out.created, document.text)

\* a caller (updateStructureFromDocument, buildMethodCallGraph) calls
\* getAnalysis; the function has no await, so the call is one step
GetAnalysis ==
    /\ MayCall
    /\ \E document \in Documents, cancelled \in BOOLEAN :
        \E out \in {getAnalysis(cache, document, cancelled, NewRef)} :
            /\ Apply("getAnalysis", document, cancelled, out)
            /\ probe' = afterCall(probe, document, cancelled, out)
            /\ UNCHANGED host

\* getAnalysisForUri resumes after its await with the document opened
GetAnalysisForUri ==
    /\ MayCall
    /\ \E uri \in Uris, text \in Texts, cancelled \in BOOLEAN :
        LET document == [uri |-> uri, languageId |-> "java", text |-> text]
        IN  \E out \in {getAnalysisForUri(cache, document, cancelled, NewRef)} :
                /\ Apply("getAnalysisForUri", document, cancelled, out)
                /\ probe' = IF cancelled THEN afterNoCall(probe)
                            ELSE afterCall(probe, document, cancelled, out)
                /\ UNCHANGED host

Clear ==
    /\ MayCall
    /\ \E uri \in {<<>>} \cup {<<u>> : u \in Uris} :
        /\ cache' = clear(cache, uri)
        /\ last' = [NoCall EXCEPT !.op = "clear", !.uri = uri, !.before = cache]
        /\ heap' = HeapAfter(cache', last', <<>>, NoText)
        /\ probe' = afterClear(probe, uri)
        /\ UNCHANGED host

\* the host's scan: where it stands (pc), its token, the files it walks, its
\* results so far, what getAnalysisForUri returned to the loop's await
\* (pending), and for the record: the results at the moment the token was
\* set (atCancel), what the loop had then still to push for an analysis
\* already returned (late), whether the parser was called after that moment,
\* what the scan handed to its view (delivered), and whether the scan ended
\* with a failed openTextDocument (failed)
HostIdle ==
    [pc |-> "idle", kind |-> "none", cancelled |-> FALSE, files |-> <<>>,
     target |-> 0, index |-> 0, results |-> <<>>, pending |-> <<>>,
     atCancel |-> <<>>, late |-> <<>>,
     parsedAfterCancel |-> FALSE, delivered |-> <<>>, failed |-> FALSE]
NoProbe == [fn |-> "none"]

Init ==
    /\ cache = {}
    /\ heap = <<>>
    /\ last = NoCall
    /\ host = HostIdle
    /\ probe = NoProbe

Next == GetAnalysis \/ GetAnalysisForUri \/ Clear

Spec == Init /\ [][Next]_vars

\* the same calls, followed over the run: which earlier call each repeats
InitCalls ==
    /\ cache = {}
    /\ heap = <<>>
    /\ last = NoCall
    /\ host = HostIdle
    /\ probe = NoCalls

SpecCalls == InitCalls /\ [][Next]_vars

-----------------------------------------------------------------------------
(* Properties of the cache, stated on the most recent call *)

\* the most recent operation entered getAnalysis
ReachedGetAnalysis ==
    \/ last.op = "getAnalysis"
    \/ last.op = "getAnalysisForUri" /\ ~last.cancelled

LastIsJava == ReachedGetAnalysis /\ last.languageId = "java"
LastSize == byteLength(last.text)
EntryBefore == mapGet(last.before, last.uri[1])
EntryAfter == mapGet(cache, last.uri[1])

\* the most recent call of getAnalysis repeats an earlier one, probe.first
Repeats == probe.fn = "calls" /\ ReachedGetAnalysis /\ probe.first # <<>>

\* C1, as stated: the second of two getAnalysis calls for the same Java
\* document with identical text (no token set, no clear and no call for
\* the identity with another text in between) returns what the first
\* returned and does not call analyzeJavaSource.
C1_AsStated ==
    (Repeats /\ ~probe.first[1].cancelled /\ ~last.cancelled)
        => (last.result = probe.first[1].result /\ ~last.parsed)

\* C1, amended: when a getAnalysis call for a Java document with a text of
\* at most MAX_PARSE_BYTES bytes returned an analysis, a later call for the
\* same identity with identical text returns the very same object and does
\* not call analyzeJavaSource, whatever its token, provided no clear of the
\* identity and no getAnalysis call for the identity with another text came
\* in between; calls for other identities, and further calls with the same
\* text, may.  (Text the parser rejects is parsed again on every call, and
\* text over the limit gets a new degenerate object on every call.)
C1_SameObjectOnHit ==
    (Repeats /\ probe.first[1].result # <<>> /\ LastSize <= MAX_PARSE_BYTES)
        => (last.result = probe.first[1].result /\ ~last.parsed)

\* a repeat with other operations since the first call, a call that changed
\* the Map for another identity among them
C1_Witness ==
    /\ Repeats /\ probe.first[1].result # <<>> /\ LastSize <= MAX_PARSE_BYTES
    /\ probe.first[1].apart
    /\ \E uri \in Uris \ {last.uri[1]} :
           probe.seen[uri] # <<>> /\ probe.seen[uri][1].result # <<>>
           /\ mapGet(cache, uri) # <<>>
    /\ last.result = probe.first[1].result /\ ~last.parsed /\ ~last.cancelled

\* the entry of an identity is superseded by a call with another text: the
\* first text is analyzed again when it comes back
C1_Superseded ==
    /\ probe.fn = "calls" /\ last.op = "getAnalysis" /\ probe.first = <<>>
    /\ last.parsed /\ last.result # <<>> /\ EntryBefore # <<>>
    /\ heap[EntryBefore[1].analysis].source # last.text

\* C2: when getAnalysis calls the pipeline and the parser rejects the text,
\* the call returns undefined and the Map is what it was before the call,
\* an older entry of the same identity included.
C2_ParseFailureLeavesCache ==
    (ReachedGetAnalysis /\ last.parsed /\ parse(last.text).threw)
        => (last.result = <<>> /\ cache = last.before /\ EntryAfter = EntryBefore)

C2_Witness ==
    /\ ReachedGetAnalysis /\ last.parsed /\ parse(last.text).threw
    /\ last.result = <<>> /\ EntryBefore # <<>> /\ EntryAfter = EntryBefore

\* C3: for a Java document of more than MAX_PARSE_BYTES bytes getAnalysis
\* returns a new object equal to the degenerate analysis and does not call
\* the parser; for one of exactly MAX_PARSE_BYTES bytes the cut-off does
\* not apply: no object is made without the parser, and a call without a
\* set token that finds no matching entry calls the parser.
C3_SizeCutOff ==
    LastIsJava =>
        /\ LastSize > MAX_PARSE_BYTES =>
              /\ last.result # <<>> /\ ~last.parsed
              /\ heap[last.result[1]].analysis =
                     emptyAnalysis([uri |-> last.uri[1], languageId |-> "java",
                                    text |-> last.text])
              /\ heap[last.result[1]].analysis.summary.className = baseName(last.uri[1])
        /\ LastSize = MAX_PARSE_BYTES =>
              /\ (last.result # <<>> /\ last.result[1] \notin RefsOf(last.before))
                     => last.parsed
              /\ (~last.cancelled
                  /\ ~isCacheHit(EntryBefore, hashText(last.text), LastSize))
                     => last.parsed

\* an oversized text the parser would accept, cut off
C3_Witness ==
    /\ LastIsJava /\ LastSize > MAX_PARSE_BYTES /\ ~parse(last.text).threw
    /\ last.result # <<>> /\ ~last.parsed

\* a text of exactly MAX_PARSE_BYTES bytes, parsed and cached
C3_ExactlyAtLimit ==
    /\ LastIsJava /\ LastSize = MAX_PARSE_BYTES /\ last.parsed
    /\ last.result # <<>> /\ EntryAfter # <<>>

\* the call made an object with the parser and stored it
Stored == ReachedGetAnalysis /\ last.parsed /\ last.result # <<>>

\* C6: the Map holds at most one entry per document identity; the hash, the
\* size and the analysis of an entry are those of one text; a successful
\* analysis replaces the entry of its identity by [hash, size, analysis] of
\* the text just analyzed and touches no other entry; and no other call
\* changes an entry (a clear only removes entries), so that an entry is
\* always the one of the most recent text analyzed successfully.
C6_OneWholeEntryPerIdentity ==
    /\ \A e1 \in cache, e2 \in cache : e1.key = e2.key => e1 = e2
    /\ \A e \in cache :
          LET made == heap[e.analysis]
              again == analyzeJavaSource(made.source, baseName(e.key))
          IN  /\ e.hash = hashText(made.source)
              /\ e.size = byteLength(made.source)
              /\ ~again.threw /\ made.analysis = again.value
    /\ Stored =>
          /\ EntryAfter = <<[key |-> last.uri[1], hash |-> hashText(last.text),
                             size |-> LastSize, analysis |-> last.result[1]]>>
          /\ heap[last.result[1]].source = last.text
          /\ last.result[1] \notin RefsOf(last.before)
          /\ {e \in cache : e.key # last.uri[1]}
                 = {e \in last.before : e.key # last.uri[1]}
    /\ ~Stored => cache \subseteq last.before

\* an entry made from one text, replaced by the entry of another
C6_Witness ==
    /\ Stored /\ EntryBefore # <<>> /\ Cardinality(cache) = 2
    /\ EntryBefore[1].hash # EntryAfter[1].hash
    /\ EntryBefore[1].size # EntryAfter[1].size
    /\ EntryBefore[1].analysis # EntryAfter[1].analysis

\* C7: clear(uri) removes the entry of uri and nothing else, clear() removes
\* every entry, no other operation removes an entry, and the first
\* getAnalysis (without a set token) for an identity whose entry was just
\* removed calls the parser although the text is the one the entry was made
\* from; whatever the token, it does not return the removed object.
C7_OnlyClearEvicts ==
    /\ (last.op = "clear" /\ last.uri # <<>>) =>
          cache = {e \in last.before : e.key # last.uri[1]}
    /\ (last.op = "clear" /\ last.uri = <<>>) => cache = {}
    /\ last.op # "clear" =>
          \A e \in last.before : \E f \in cache : f.key = e.key
    /\ (ReachedGetAnalysis /\ last.evicted # <<>>) =>
          /\ last.result # last.evicted
          /\ last.result # <<>> => last.parsed
          /\ ~last.cancelled => (last.parsed /\ last.result # <<>>)

\* the entry of an identity was removed, and the same text analyzed again
C7_Witness ==
    /\ ReachedGetAnalysis /\ last.evicted # <<>> /\ last.parsed
    /\ last.result # <<>> /\ last.result # last.evicted /\ last.before # {}

\* a clear(uri) that removed one entry and kept another
C7_ClearOne ==
    /\ last.op = "clear" /\ last.uri # <<>>
    /\ Cardinality(last.before) = 2 /\ Cardinality(cache) = 1

\* C8, as stated: after getAnalysis has returned the degenerate analysis for
\* an oversized Java document, the Map holds an entry of that identity with
\* that result.
C8_AsStated ==
    (LastIsJava /\ LastSize > MAX_PARSE_BYTES /\ last.result # <<>>)
        => (EntryAfter # <<>> /\ EntryAfter[1].analysis = last.result[1])

\* C8, amended: a size-exceeded request yields a valid result, not an
\* error (the degenerate analysis, nothing thrown), but it is not recorded:
\* the Map after the call is the Map before it and holds no entry with that
\* result.
C8_OversizeNotRecorded ==
    (LastIsJava /\ LastSize > MAX_PARSE_BYTES)
        => /\ last.result # <<>> /\ ~last.threw
           /\ cache = last.before
           /\ last.result[1] \notin RefsOf(cache)

\* an oversized request for an identity that has an entry of an earlier text
C8_Witness ==
    /\ LastIsJava /\ LastSize > MAX_PARSE_BYTES /\ last.result # <<>>
    /\ EntryAfter # <<>> /\ EntryAfter = EntryBefore
    /\ EntryAfter[1].analysis # last.result[1]

\* C9: getAnalysis on a document whose languageId is not "java" returns
\* undefined without hashing or parsing the text, and the Map is what it was
\* before the call, whatever it holds for that identity.
C9_NotJava ==
    (last.op = "getAnalysis" /\ last.languageId # "java")
        => /\ last.result = <<>> /\ ~last.hashed /\ ~last.parsed
           /\ cache = last.before

\* a document that is not Java, its text the one cached for its identity
C9_Witness ==
    /\ last.op = "getAnalysis" /\ last.languageId # "java" /\ last.result = <<>>
    /\ EntryAfter # <<>> /\ heap[EntryAfter[1].analysis].source = last.text

-----------------------------------------------------------------------------
(* The pure functions on their own: hashText and the size, on texts one    *)
(* character apart, and the two parsing entry points.  `probe` holds the   *)
(* arguments and the results of the most recent application.               *)

MaxKeyLen == 2

\* characters as code units: one to three bytes of UTF-8, a surrogate pair
\* (four bytes), and its halves alone
KeyCharacters ==
    {<<SPACE>>, <<97>>, <<233>>, <<8364>>, <<55357, 56832>>, <<55357>>, <<56832>>}

KeyTexts == StringsUpTo(KeyCharacters, MaxKeyLen)

\* the texts one character away from `chars`
Edits(chars) ==
    LET n == Len(chars)
    IN  UNION {{[kind |-> "substituted", chars |-> [chars EXCEPT ![i] = c]] :
                    c \in KeyCharacters \ {chars[i]}} : i \in 1..n}
        \cup {[kind |-> "inserted",
               chars |-> SubSeq(chars, 1, i) \o <<c>> \o SubSeq(chars, i + 1, n)] :
                    i \in 0..n, c \in KeyCharacters}
        \cup {[kind |-> "deleted",
               chars |-> SubSeq(chars, 1, i - 1) \o SubSeq(chars, i + 1, n)] :
                    i \in 1..n}

\* what getAnalysis compares: the hash and the size of a text
cacheKey(text) == [hash |-> hashText(text), size |-> byteLength(text)]

\* the texts handed to the entry points: short ones and the two class files
EntryTexts ==
    {Text(0, body) : body \in StringsUpTo(BodyAlphabet, MaxBodyLen)}
    \cup {SvcSource, MainSource}

FallbackNames == {baseName(uri) : uri \in Uris}

\* the arguments of one application
ProbeInputs ==
    UNION {{[fn |-> "hashText", done |-> FALSE, kind |-> edit.kind,
             text |-> Text(0, ConcatAll(chars)),
             other |-> Text(0, ConcatAll(edit.chars))] : edit \in Edits(chars)} :
                chars \in KeyTexts}
    \cup [fn : {"parseJavaMembers", "analyzeJavaSource"}, done : {FALSE},
          source : EntryTexts, fallbackClassName : FallbackNames]

InitFunctions ==
    /\ cache = {}
    /\ heap = <<>>
    /\ last = NoCall
    /\ host = HostIdle
    /\ probe \in ProbeInputs

HashText ==
    /\ probe.fn = "hashText" /\ ~probe.done
    /\ probe' = [fn |-> "hashText", done |-> TRUE, kind |-> probe.kind,
                 text |-> probe.text, other |-> probe.other,
                 key |-> cacheKey(probe.text), otherKey |-> cacheKey(probe.other)]
    /\ UNCHANGED <<cache, heap, last, host>>

ParseJavaMembers ==
    /\ probe.fn = "parseJavaMembers" /\ ~probe.done
    /\ probe' = [fn |-> "parseJavaMembers", done |-> TRUE, source |-> probe.source,
                 fallbackClassName |-> probe.fallbackClassName,
                 out |-> parseJavaMembers(probe.source, probe.fallbackClassName)]
    /\ UNCHANGED <<cache, heap, last, host>>

AnalyzeJavaSource ==
    /\ probe.fn = "analyzeJavaSource" /\ ~probe.done
    /\ probe' = [fn |-> "analyzeJavaSource", done |-> TRUE, source |-> probe.source,
                 fallbackClassName |-> probe.fallbackClassName,
                 out |-> analyzeJavaSource(probe.source, probe.fallbackClassName)]
    /\ UNCHANGED <<cache, heap, last, host>>

NextFunctions == HashText \/ ParseJavaMembers \/ AnalyzeJavaSource

SpecFunctions == InitFunctions /\ [][NextFunctions]_vars

Hashed == probe.fn = "hashText" /\ probe.done

\* C4: two texts one character apart (a character substituted, inserted or
\* deleted) have different cache keys: the hash or the size differs, so the
\* entry of one is no cache hit for the other.
C4_KeyChangesWithText ==
    Hashed =>
        /\ probe.key # probe.otherKey
        /\ ~isCacheHit(<<[key |-> UriZygote, hash |-> probe.key.hash,
                          size |-> probe.key.size, analysis |-> 1]>>,
                       probe.otherKey.hash, probe.otherKey.size)

\* a substitution that leaves the size alone: the hash tells the texts apart
C4_Witness ==
    /\ Hashed /\ probe.kind = "substituted"
    /\ probe.key.size = probe.otherKey.size /\ probe.key.size > 4
    /\ probe.key.hash # probe.otherKey.hash

\* an insertion between the halves of a surrogate pair: the size changes
C4_InsertedInPair ==
    /\ Hashed /\ probe.kind = "inserted"
    /\ probe.text.body = <<55357, 56832>> /\ probe.other.body = <<55357, 56832, 56832>>
    /\ probe.key.size = 4 /\ probe.otherKey.size = 7

\* an entry point was applied to a text the parser rejects
Rejected(fn) == probe.fn = fn /\ probe.done /\ parse(probe.source).threw

\* C10, as stated: when the parser rejects the text, parseJavaMembers and
\* analyzeJavaSource both return the fallback summary (the fallback class
\* name, no members) and do not throw.
C10_AsStated ==
    /\ Rejected("parseJavaMembers") =>
          /\ ~probe.out.threw
          /\ probe.out.value = [className |-> probe.fallbackClassName,
                                members |-> <<>>]
    /\ Rejected("analyzeJavaSource") =>
          /\ ~probe.out.threw
          /\ probe.out.value.summary.className = probe.fallbackClassName
          /\ probe.out.value.summary.fields = <<>>
          /\ probe.out.value.summary.methods = <<>>

\* C10, amended: when the parser rejects the text, parseJavaMembers returns
\* the fallback summary (the fallback class name, no members) and does not
\* throw, and analyzeJavaSource throws the parser's error (its caller
\* getAnalysis catches it and returns undefined).
C10_OnlyParseJavaMembersCatches ==
    /\ Rejected("parseJavaMembers") =>
          /\ ~probe.out.threw
          /\ probe.out.value = [className |-> probe.fallbackClassName,
                                members |-> <<>>]
    /\ Rejected("analyzeJavaSource") => probe.out.threw

C10_Witness == Rejected("analyzeJavaSource") /\ probe.out.threw

C10_FallbackReturned ==
    /\ Rejected("parseJavaMembers") /\ ~probe.out.threw
    /\ probe.out.value.className = probe.fallbackClassName

-----------------------------------------------------------------------------
(* The host's scans over many files: the aosp.showSystemServices command   *)
(* (extension.ts) and buildLifecycleTimeline (lifecycle.ts) behind         *)
(* aosp.showLifecycle.  A step runs from one await to the next: the awaits *)
(* on the host (findFiles, openTextDocument) and the loop's await of       *)
(* getAnalysisForUri, which resumes some turns of the event loop after     *)
(* getAnalysisForUri has returned.  The token can be set between any two   *)
(* steps, once the scan has one; openTextDocument may fail instead of      *)
(* delivering a document.  One scan runs at a time.  What a scan's calls   *)
(* did is recorded in `host`; `last` is left to the direct calls.          *)

UriCopy == "file:///w/tests/SystemServer.java"

\* the workspace's Java files, in the order findFiles lists them
Workspace == <<UriZygote, UriServer, UriCopy>>

fileNameOf(uri) == IF uri = UriZygote THEN "ZygoteInit.java" ELSE "SystemServer.java"

\* vscode.workspace.findFiles("**/" + fileName, ...)
findFilesNamed(fileName) == SelectSeq(Workspace, LAMBDA uri : fileNameOf(uri) = fileName)

\* what a file holds when it is opened: a service class, a class with main,
\* or text the parser rejects
ScanTexts == {SvcSource, MainSource, Text(0, <<LCURLY>>)}

\* and, for the lifecycle scan, a class with several lifecycle methods
LifecycleTexts == ScanTexts \cup {JavaFileText(LifecycleFile)}

targets == <<"ZygoteInit.java", "SystemServer.java">>

LIFECYCLE_METHODS ==
    {W_main, W_startBootstrapServices, W_startCoreServices, W_startOtherServices}

RECURSIVE insertByLine(_, _)
insertByLine(sorted, entry) ==
    IF sorted = <<>> THEN <<entry>>
    ELSE IF sorted[Len(sorted)].line <= entry.line THEN Append(sorted, entry)
    ELSE Append(insertByLine(SubSeq(sorted, 1, Len(sorted) - 1), entry),
                sorted[Len(sorted)])

\* a faulty sort, for comparison: (a, b) => b.line - a.line
RECURSIVE sortByLineDescending(_)
sortByLineDescending(entries) ==
    IF entries = <<>> THEN <<>>
    ELSE LET rest == sortByLineDescending(Tail(entries))
             above == SelectSeq(rest, LAMBDA e : e.line > Head(entries).line)
             below == SelectSeq(rest, LAMBDA e : e.line <= Head(entries).line)
         IN  above \o <<Head(entries)>> \o below

\* entries.sort((a, b) => a.line - b.line), a stable sort
RECURSIVE sortByLine(_)
sortByLine(entries) ==
    IF entries = <<>> THEN <<>>
    ELSE insertByLine(sortByLine(SubSeq(entries, 1, Len(entries) - 1)),
                      entries[Len(entries)])

\* the timeline buildLifecycleTimeline pushes for one analysis
timelineOf(uri, analysis) ==
    LET found == SelectSeq(analysis.methodDecls,
                           LAMBDA method : method.name \in LIFECYCLE_METHODS)
    IN  [filePath |-> uri,
         className |-> analysis.summary.className,
         entries |-> sortByLine([k \in 1..Len(found) |->
                         [name |-> found[k].name, line |-> found[k].startLine]])]

\* the JavaFileAnalysis a call returned (<<>> for undefined)
analysisOf(out) ==
    IF out.result = <<>> THEN <<>>
    ELSE IF out.created # <<>> THEN out.created
    ELSE <<heap[out.result[1]].analysis>>

\* what the loop's body pushes for the analysis a call returned (<<>> when
\* it pushes nothing)
pushedFor(kind, uri, analysis) ==
    IF analysis = <<>> THEN <<>>
    ELSE IF kind = "lifecycle" THEN <<timelineOf(uri, analysis[1])>>
    ELSE analysis[1].systemService

\* what the loop's body appends to the results for the analysis pending
resultsFor(kind, uri, analysis) ==
    LET pushed == pushedFor(kind, uri, analysis)
    IN  IF pushed = <<>> THEN <<>> ELSE <<[file |-> uri, value |-> pushed[1]]>>

\* openTextDocument delivers the document of files[index]: the rest of
\* getAnalysisForUri, which returns to the loop's await
Opened(kind, text) ==
    /\ host.pc = "open" /\ host.kind = kind
    /\ LET uri == host.files[host.index]
           document == [uri |-> uri, languageId |-> "java", text |-> text]
       IN  \E out \in {getAnalysisForUri(cache, document, host.cancelled, NewRef)} :
              /\ cache' = out.cache
              /\ heap' = [r \in RefsOf(out.cache) |->
                            IF out.created # <<>> /\ <<r>> = out.result
                            THEN [analysis |-> out.created[1], source |-> text]
                            ELSE heap[r]]
              /\ host' = [host EXCEPT
                            !.pending = <<analysisOf(out)>>,
                            !.pc = "returned",
                            !.parsedAfterCancel = @ \/ (host.cancelled /\ out.parsed)]
              /\ UNCHANGED <<last, probe>>

\* the loop's await resumes with the analysis: the loop's body up to its
\* next await
Resumed(kind) ==
    /\ host.pc = "returned" /\ host.kind = kind
    /\ host' = [host EXCEPT
                  !.results = @ \o resultsFor(kind, host.files[host.index],
                                              host.pending[1]),
                  !.pending = <<>>,
                  !.index = @ + 1,
                  !.pc = IF kind = "lifecycle" THEN "file" ELSE "loop"]
    /\ UNCHANGED <<cache, heap, last, probe>>

HostStep(next) == host' = next /\ UNCHANGED <<cache, heap, last, probe>>

\* aosp.showSystemServices: the command starts and awaits findFiles
StartShowSystemServices ==
    /\ host.pc = "idle"
    /\ HostStep([HostIdle EXCEPT !.pc = "findFiles", !.kind = "systemServices"])

\* findFiles has listed the files; withProgress starts the callback
SsFound ==
    /\ host.pc = "findFiles"
    /\ HostStep([host EXCEPT !.files = Workspace, !.index = 1, !.pc = "loop"])

\* the head of the for loop: the token check, then getAnalysisForUri up to
\* its await
SsNext ==
    /\ host.pc = "loop"
    /\ HostStep([host EXCEPT !.pc = IF host.cancelled \/ host.index > Len(host.files)
                                    THEN "update" ELSE "open"])

SsOpened == \E text \in ScanTexts : Opened("systemServices", text)

\* the body of the for loop: push, progress.report
SsResumed == Resumed("systemServices")

\* systemServiceProvider.update(summaries)
SsUpdate ==
    /\ host.pc = "update" /\ host.kind = "systemServices"
    /\ HostStep([host EXCEPT !.delivered = <<host.results>>, !.pc = "idle"])

\* aosp.showLifecycle: withProgress calls buildLifecycleTimeline(token)
StartShowLifecycle ==
    /\ host.pc = "idle"
    /\ HostStep([HostIdle EXCEPT !.pc = "target", !.kind = "lifecycle", !.target = 1])

\* the head of the loop over targets: the token check, then findFiles
LcTarget ==
    /\ host.pc = "target"
    /\ HostStep([host EXCEPT !.pc = IF host.cancelled \/ host.target > Len(targets)
                                    THEN "update" ELSE "targetFiles"])

LcFound ==
    /\ host.pc = "targetFiles"
    /\ HostStep([host EXCEPT !.files = findFilesNamed(targets[host.target]),
                             !.index = 1, !.pc = "file"])

\* the head of the loop over files (no token check): getAnalysisForUri up
\* to its await, or on to the next target
LcFile ==
    /\ host.pc = "file"
    /\ HostStep(IF host.index > Len(host.files)
                THEN [host EXCEPT !.target = @ + 1, !.pc = "target"]
                ELSE [host EXCEPT !.pc = "open"])

LcOpened == \E text \in LifecycleTexts : Opened("lifecycle", text)

\* the body of the loop over files: filter, map, sort, push
LcResumed == Resumed("lifecycle")

\* buildLifecycleTimeline returns; lifecycleProvider.update(timelines)
LcUpdate ==
    /\ host.pc = "update" /\ host.kind = "lifecycle"
    /\ HostStep([host EXCEPT !.delivered = <<host.results>>, !.pc = "idle"])

\* the user cancels the progress: token.isCancellationRequested becomes true
Cancel ==
    /\ host.pc \in {"loop", "open", "returned", "target", "targetFiles", "file"}
    /\ ~host.cancelled
    /\ HostStep([host EXCEPT
                   !.cancelled = TRUE,
                   !.atCancel = <<host.results>>,
                   !.late = IF host.pending = <<>> THEN <<>>
                            ELSE resultsFor(host.kind, host.files[host.index],
                                            host.pending[1])])

\* openTextDocument fails (the file is gone): getAnalysisForUri throws, and
\* so does the loop; the command's promise is rejected before update
OpenFails ==
    /\ host.pc = "open"
    /\ HostStep([host EXCEPT !.pc = "idle", !.failed = TRUE])

ScanStep ==
    \/ SsFound \/ SsNext \/ SsOpened \/ SsResumed \/ SsUpdate
    \/ LcTarget \/ LcFound \/ LcFile \/ LcOpened \/ LcResumed \/ LcUpdate

NextScan ==
    StartShowSystemServices \/ StartShowLifecycle \/ Cancel \/ OpenFails \/ ScanStep

\* the host's awaits complete: a scan under way takes its next step
SpecScan == Init /\ [][NextScan]_vars /\ WF_vars(ScanStep)

\* the order in which the scan visits the files
ScanOrder ==
    IF host.kind = "lifecycle"
    THEN findFilesNamed(targets[1]) \o findFilesNamed(targets[2])
    ELSE Workspace

PositionIn(order, uri) == CHOOSE k \in 1..Len(order) : order[k] = uri

InFileOrder(results) ==
    \A a \in 1..Len(results), b \in 1..Len(results) :
        a < b => PositionIn(ScanOrder, results[a].file)
                     < PositionIn(ScanOrder, results[b].file)

\* the results of a cancelled scan are those it had when the token was set
PartialResultsOnly ==
    /\ InFileOrder(host.results)
    /\ host.cancelled =>
          /\ ~host.parsedAfterCancel
          /\ host.results = host.atCancel[1]
          /\ host.delivered # <<>> => host.delivered = host.atCancel

\* the same, with the result of an analysis that getAnalysisForUri had
\* already returned when the token was set: the loop's body still pushes it
PartialResultsKept ==
    /\ InFileOrder(host.results)
    /\ host.cancelled =>
          /\ ~host.parsedAfterCancel
          /\ host.results = IF host.pending # <<>> /\ host.pending[1] # <<>>
                            THEN host.atCancel[1]
                            ELSE host.atCancel[1] \o host.late
          /\ host.delivered # <<>> =>
                host.delivered = <<host.atCancel[1] \o host.late>>

ScanOver == host.pc = "idle" /\ host.delivered = <<host.results>>

C5_Witness ==
    /\ host.cancelled /\ host.pc = "idle" /\ host.index <= Len(host.files)
    /\ Len(host.results) = 1 /\ host.delivered = host.atCancel
    /\ host.late = <<>> /\ host.delivered = <<host.results>>

C5_Failed == host.pc = "idle" /\ host.failed /\ host.cancelled /\ host.delivered = <<>>

-----------------------------------------------------------------------------
(* concurrency.ts: the lock-hazard warnings, found in the raw text.  The   *)
(* text is a sequence of character codes; indices count from 0.            *)

W_synchronized == <<115, 121, 110, 99, 104, 114, 111, 110, 105, 122, 101, 100>>
W_transact == <<116, 114, 97, 110, 115, 97, 99, 116>>
W_linkToDeath == <<108, 105, 110, 107, 84, 111, 68, 101, 97, 116, 104>>
W_asBinder == <<97, 115, 66, 105, 110, 100, 101, 114>>
W_queryLocalInterface ==
    <<113, 117, 101, 114, 121, 76, 111, 99, 97, 108, 73, 110, 116, 101, 114, 102, 97,
      99, 101>>
W_post == <<112, 111, 115, 116>>
W_postDelayed == <<112, 111, 115, 116, 68, 101, 108, 97, 121, 101, 100>>
W_sendMessage == <<115, 101, 110, 100, 77, 101, 115, 115, 97, 103, 101>>
W_sendMessageAtTime ==
    <<115, 101, 110, 100, 77, 101, 115, 115, 97, 103, 101, 65, 116, 84, 105, 109, 101>>

\* /word\s*\(/ matches at index i
callOfAt(text, i, word) ==
    /\ StartsWithAt(text, i + 1, word)
    /\ LET open == skipWhile(text, i + Len(word), "space")
       IN  open < Len(text) /\ At(text, open) = 40

\* BINDER_CALL_REGEX.test(text)
binderCallIn(text) ==
    \E i \in 0..(Len(text) - 1) :
        \E word \in {W_transact, W_linkToDeath, W_asBinder, W_queryLocalInterface} :
            callOfAt(text, i, word)

\* HANDLER_CALL_REGEX.test(text)
handlerCallIn(text) ==
    \E i \in 0..(Len(text) - 1) :
        /\ wordBoundaryAt(text, i)
        /\ \E word \in {W_post, W_postDelayed, W_sendMessage, W_sendMessageAtTime} :
              callOfAt(text, i, word)

\* /\bsynchronized\b/ matches at index i
synchronizedAt(text, i) ==
    /\ StartsWithAt(text, i + 1, W_synchronized)
    /\ wordBoundaryAt(text, i)
    /\ wordBoundaryAt(text, i + Len(W_synchronized))

\* /\bsynchronized\b/.test(text)
synchronizedIn(text) == \E i \in 0..(Len(text) - 1) : synchronizedAt(text, i)

\* text.indexOf("{", from)
indexOfBrace(text, from) == LeastOf({i \in from..(Len(text) - 1) : At(text, i) = LCURLY})

\* the loop over the characters behind the brace: the index at which the
\* depth comes back to 0, -1 when it never does
\* the loop from index i on with `depth` open braces: the index of the first
\* closing brace that leaves none open, -1 when the text ends before
blockEndFrom(text, i, depth) ==
    LET depthBehind(j) ==
            depth + Cardinality({k \in i..j : At(text, k) = LCURLY})
                  - Cardinality({k \in i..j : At(text, k) = 125})
    IN  LeastOf({j \in i..(Len(text) - 1) : At(text, j) = 125 /\ depthBehind(j) = 0})

\* text.slice(0, startIndex).split("\n").length
lineOfIndex(text, startIndex) ==
    Cardinality({i \in 0..(startIndex - 1) : At(text, i) = NEWLINE}) + 1

\* a faulty search, for comparison: it goes on behind the block it found
resumeBehindBlock(startIndex, end) ==
    IF end = -1 THEN startIndex + Len(W_synchronized) ELSE end

\* where syncRegex.exec resumes (lastIndex): behind the match
resumeBehindMatch(startIndex, end) == startIndex + Len(W_synchronized)

RECURSIVE findSynchronizedBlocksFrom(_, _)
findSynchronizedBlocksFrom(text, lastIndex) ==
    LET startIndex == LeastOf({i \in lastIndex..(Len(text) - 1) : synchronizedAt(text, i)})
    IN  IF startIndex = -1 THEN <<>>
        ELSE LET braceIndex == indexOfBrace(text, startIndex)
                 end == IF braceIndex = -1 THEN -1
                        ELSE blockEndFrom(text, braceIndex + 1, 1)
             IN  (IF end = -1 THEN <<>>
                  ELSE <<[start |-> braceIndex + 1, end |-> end,
                          line |-> lineOfIndex(text, startIndex)]>>)
                 \o findSynchronizedBlocksFrom(text, resumeBehindMatch(startIndex, end))

findSynchronizedBlocks(text) == findSynchronizedBlocksFrom(text, 0)

\* a warning is [line, message], its range being the start of line - 1
warningsOfBlock(text, block) ==
    LET blockText == StrSlice(text, block.start, block.end)
    IN  (IF binderCallIn(blockText)
         THEN <<[line |-> block.line,
                 message |-> "Binder call inside synchronized block may block other threads."]>>
         ELSE <<>>)
        \o (IF handlerCallIn(blockText)
            THEN <<[line |-> block.line,
                    message |-> "Handler post/send inside synchronized block can cause lock inversion."]>>
            ELSE <<>>)
        \o (IF synchronizedIn(blockText)
            THEN <<[line |-> block.line,
                    message |-> "Nested synchronized blocks detected."]>>
            ELSE <<>>)

analyzeConcurrencyWarnings(text) ==
    LET blocks == findSynchronizedBlocks(text)
    IN  ConcatAll([k \in 1..Len(blocks) |-> warningsOfBlock(text, blocks[k])])

-----------------------------------------------------------------------------
(* The analyses on their own, each applied once to arguments drawn in the  *)
(* initial state: the call graph of the method under the cursor of a class *)
(* file.  `probe` holds the arguments and, once applied, the results.      *)

\* the offset of the name of the k-th member of a class file
NameOffset(file, k) ==
    LET before == JavaFileText([file EXCEPT !.members = SubSeq(@, 1, k - 1)]).body
        m == file.members[k]
    IN  (Len(before) - 1) + Len(file.sep)
        + Len(ItemsText(ModifierItems("methodModifier", m.mods)))
        + Len(W_void) + 1

\* the offset of the first token of the k-th member of a class file
DeclarationOffset(file, k) ==
    LET before == JavaFileText([file EXCEPT !.members = SubSeq(@, 1, k - 1)]).body
    IN  (Len(before) - 1) + Len(file.sep)

\* the cursor: at the start of the file (0), or on a member: on its name
\* or on its first token, the return type
\* the command may be run again on the same editor, MaxRuns times in all
MaxRuns == 2

GraphInputs ==
    UNION {[fn : {"buildMethodCallGraph"}, done : {FALSE}, runs : {0},
            awaiting : {FALSE}, moved : {FALSE}, file : {file},
            cursor : 0..Len(file.members), part : {"name", "result"},
            cancelled : BOOLEAN] : file \in GraphFiles \cup NestedFiles}

CursorOffset(file, cursor, part) ==
    IF cursor = 0 THEN 0
    ELSE IF part = "name" THEN NameOffset(file, cursor)
    ELSE DeclarationOffset(file, cursor)

\* argument texts: short ones over the brackets, the comma, a letter and a
\* space, and the two of the arity examples
MaxArgLen == 3
ArgCharacters == {97, 44, 40, 41, 60, 62, 91, 93, SPACE}

\* a, b.g(c, d), e
ArgsOfThree == <<97, 44, 32, 98, 46, 103, 40, 99, 44, 32, 100, 41, 44, 32, 101>>
\* new int[]{1,2,3}
ArgsWithInitializer ==
    <<110, 101, 119, 32, 105, 110, 116, 91, 93, 123, 49, 44, 50, 44, 51, 125>>

ArgTexts == StringsUpTo(ArgCharacters, MaxArgLen) \cup {ArgsOfThree, ArgsWithInitializer}

\* f(<arguments>)
CallOfF(args) == <<102, 40>> \o args \o <<41>>

\* texts behind `f(`: short ones over the parentheses, the two quotes, the
\* backslash and a letter
MaxParenLen == 4
ParenCharacters == {40, 41, 34, 39, 92, 97}
ParenTexts == {<<102, 40>> \o rest : rest \in StringsUpTo(ParenCharacters, MaxParenLen)}

ArgumentInputs ==
    [fn : {"countArgumentsFromText"}, done : {FALSE}, text : ArgTexts]
    \cup [fn : {"scanInvocationsInText"}, done : {FALSE},
          text : {CallOfF(args) : args \in ArgTexts} \cup ParenTexts]
    \cup [fn : {"findMatchingParen"}, done : {FALSE}, text : ParenTexts,
          openIndex : {1}]

ClassFileInputs ==
    [fn : {"analyzeClassFile"}, done : {FALSE}, file : MemberFiles \cup ServiceFiles]

\* documents made of up to MaxPieces pieces:
\*   synchronized(l){    }    b.transact();    h.post(r);    a line feed
MaxPieces == 5
OpenLock == W_synchronized \o <<40, 108, 41, LCURLY>>
CloseLock == <<125>>
BinderCall == <<98, 46>> \o W_transact \o <<40, 41, SEMI>>
HandlerCall == <<104, 46>> \o W_post \o <<40, 114, 41, SEMI>>
Pieces == {OpenLock, CloseLock, BinderCall, HandlerCall, <<NEWLINE>>}

LockInputs ==
    [fn : {"analyzeConcurrencyWarnings"}, done : {FALSE},
     pieces : SeqsUpTo(Pieces, MaxPieces)]

\* source texts of up to MaxLineTextLen characters over a letter, the line
\* feed and the carriage return, behind no or one space
MaxLineTextLen == 4
LineCharacters == {97, NEWLINE, 13}

LineInputs ==
    [fn : {"offsetToLine"}, done : {FALSE},
     source : {Text(pad, body) : pad \in {0, 1},
                                 body \in StringsUpTo(LineCharacters, MaxLineTextLen)}]

AnalysisInputs ==
    GraphInputs \cup ArgumentInputs \cup ClassFileInputs \cup LockInputs \cup LineInputs

InitAnalysis ==
    /\ cache = {}
    /\ heap = <<>>
    /\ last = NoCall
    /\ host = HostIdle
    /\ probe \in AnalysisInputs

\* the aosp.showMethodCallGraph command on an editor showing the file, up
\* to the await of getAnalysis in buildMethodCallGraph: getAnalysis has
\* returned, the Map is changed, the graph of an earlier run is still shown
BuildMethodCallGraph ==
    /\ probe.fn = "buildMethodCallGraph" /\ probe.runs < MaxRuns /\ ~probe.awaiting
    /\ LET document == [uri |-> UriZygote, languageId |-> "java",
                        text |-> JavaFileText(probe.file)]
           \* each run has the token of its own progress
           tokens == IF probe.runs = 0 THEN {probe.cancelled} ELSE BOOLEAN
       IN  \E cancelled \in tokens :
           \E out \in {getAnalysis(cache, document, cancelled, NewRef)} :
               /\ Apply("getAnalysis", document, cancelled, out)
               /\ probe' = [fn |-> "buildMethodCallGraph", done |-> FALSE,
                            runs |-> probe.runs, awaiting |-> TRUE, moved |-> FALSE,
                            file |-> probe.file, cursor |-> probe.cursor,
                            part |-> probe.part, cancelled |-> cancelled,
                            analysis |-> analysisOf(out)]
    /\ UNCHANGED host

\* the cursor is moved while buildMethodCallGraph awaits: editor.selection
\* is read only after the await
MoveCursor ==
    /\ probe.fn = "buildMethodCallGraph" /\ probe.awaiting /\ ~probe.moved
    /\ \E cursor \in 0..Len(probe.file.members), part \in {"name", "result"} :
           /\ <<cursor, part>> # <<probe.cursor, probe.part>>
           /\ probe' = [probe EXCEPT !.cursor = cursor, !.part = part, !.moved = TRUE]
    /\ UNCHANGED <<cache, heap, last, host>>

\* the await resumes: the rest of buildMethodCallGraph, from the cursor as
\* it is now, and callGraphProvider.update
MethodCallGraphBuilt ==
    /\ probe.fn = "buildMethodCallGraph" /\ probe.awaiting
    /\ LET offset == CursorOffset(probe.file, probe.cursor, probe.part)
       IN  probe' = [fn |-> "buildMethodCallGraph", done |-> TRUE,
                     runs |-> probe.runs + 1, awaiting |-> FALSE, moved |-> probe.moved,
                     file |-> probe.file, cursor |-> probe.cursor,
                     part |-> probe.part, cancelled |-> probe.cancelled,
                     offset |-> offset, analysis |-> probe.analysis,
                     graph |-> buildMethodCallGraph(probe.analysis, offset, UriZygote)]
    /\ UNCHANGED <<cache, heap, last, host>>

CountArgumentsFromText ==
    /\ probe.fn = "countArgumentsFromText" /\ ~probe.done
    /\ probe' = [fn |-> "countArgumentsFromText", done |-> TRUE, text |-> probe.text,
                 count |-> countArgumentsFromText(probe.text)]
    /\ UNCHANGED <<cache, heap, last, host>>

\* the scanner on a method body that is one line of text at offset 0
ScanInvocationsInText ==
    /\ probe.fn = "scanInvocationsInText" /\ ~probe.done
    /\ probe' = [fn |-> "scanInvocationsInText", done |-> TRUE, text |-> probe.text,
                 invocations |-> scanInvocationsInText(probe.text, 0, <<0>>)]
    /\ UNCHANGED <<cache, heap, last, host>>

\* the offsets a line is asked for: from one before the text to two past it
OffsetsOf(source) == (0 - 1)..(TextLength(source) + 2)

\* buildLineIndex on a source text, and offsetToLine on its result for each
\* offset
OffsetToLine ==
    /\ probe.fn = "offsetToLine" /\ ~probe.done
    /\ LET lineStarts == buildLineIndex(probe.source)
       IN  probe' = [fn |-> "offsetToLine", done |-> TRUE, source |-> probe.source,
                     lineStarts |-> lineStarts,
                     lines |-> [offset \in OffsetsOf(probe.source) |->
                                   offsetToLine(offset, lineStarts)]]
    /\ UNCHANGED <<cache, heap, last, host>>

\* findMatchingParen on a text and the index of an open parenthesis
FindMatchingParen ==
    /\ probe.fn = "findMatchingParen" /\ ~probe.done
    /\ probe' = [fn |-> "findMatchingParen", done |-> TRUE, text |-> probe.text,
                 openIndex |-> probe.openIndex,
                 close |-> findMatchingParen(probe.text, probe.openIndex)]
    /\ UNCHANGED <<cache, heap, last, host>>

\* analyzeJavaSource on the text of a class file
AnalyzeClassFile ==
    /\ probe.fn = "analyzeClassFile" /\ ~probe.done
    /\ probe' = [fn |-> "analyzeClassFile", done |-> TRUE, file |-> probe.file,
                 out |-> analyzeJavaSource(JavaFileText(probe.file), baseName(UriServer))]
    /\ UNCHANGED <<cache, heap, last, host>>

\* analyzeConcurrencyWarnings on a document with the text of the pieces
AnalyzeConcurrencyWarnings ==
    /\ probe.fn = "analyzeConcurrencyWarnings" /\ ~probe.done
    /\ probe' = [fn |-> "analyzeConcurrencyWarnings", done |-> TRUE,
                 pieces |-> probe.pieces,
                 warnings |-> analyzeConcurrencyWarnings(ConcatAll(probe.pieces))]
    /\ UNCHANGED <<cache, heap, last, host>>

NextAnalysis ==
    \/ AnalyzeConcurrencyWarnings
    \/ BuildMethodCallGraph
    \/ MoveCursor
    \/ MethodCallGraphBuilt
    \/ CountArgumentsFromText
    \/ ScanInvocationsInText
    \/ FindMatchingParen
    \/ OffsetToLine
    \/ AnalyzeClassFile

SpecAnalysis == InitAnalysis /\ [][NextAnalysis]_vars

\* a graph was built: the analysis it was built from, the method under the
\* cursor, and the graph
Graphed == probe.fn = "buildMethodCallGraph" /\ probe.done /\ probe.graph # <<>>
\* the graph of a run that found the text's entry in the Map
GraphedFromCache == Graphed /\ probe.runs > 1 /\ ~last.parsed /\ cache = last.before
\* the graph of the method the cursor was moved to while the command waited
GraphedAfterMove == Graphed /\ probe.moved /\ probe.cursor > 0
GraphAnalysis == probe.analysis[1]
GraphMethod == findMethodAtOffset(GraphAnalysis.methodDecls, probe.offset)[1]
Graph == probe.graph[1]

GraphRef(method) ==
    [className |-> GraphAnalysis.summary.className, methodName |-> method.name,
     filePath |-> UriZygote, line |-> method.startLine]

\* the invocation starts within the body of the method (within its
\* declaration when it has no body)
Within(invocation, method) ==
    LET start == IF method.bodyStartOffset # <<>> THEN method.bodyStartOffset[1]
                 ELSE method.startOffset
        end == IF method.bodyEndOffset # <<>> THEN method.bodyEndOffset[1]
               ELSE method.endOffset
    IN  start <= invocation.startOffset /\ invocation.startOffset <= end

SameCall(invocation, method) ==
    invocation.name = method.name /\ invocation.argsCount = method.paramsCount

\* the file has two methods of no parameter and different names, and one
\* invocation: of the method `callee`, in the body of the method `caller`
OnlyCallIs(caller, callee) ==
    LET decls == GraphAnalysis.methodDecls
        calls == GraphAnalysis.methodInvocations
    IN  /\ Len(decls) = 2 /\ {caller, callee} = {1, 2}
        /\ decls[1].name # decls[2].name
        /\ decls[1].paramsCount = 0 /\ decls[2].paramsCount = 0
        /\ Len(calls) = 1
        /\ SameCall(calls[1], decls[callee]) /\ Within(calls[1], decls[caller])

\* C12: in a file with two methods a and b of no parameter whose only
\* invocation is b() in the body of a, the graph of a has the callees [b]
\* and no callers, and the graph of b has the callers [a] and no callees.
C12_DirectionConsistent ==
    Graphed =>
        \A a \in 1..2, b \in 1..2 :
            OnlyCallIs(a, b) =>
                LET decls == GraphAnalysis.methodDecls
                IN  /\ GraphMethod = decls[a] =>
                          /\ Graph.callees = <<GraphRef(decls[b])>>
                          /\ Graph.callers = <<>>
                    /\ GraphMethod = decls[b] =>
                          /\ Graph.callers = <<GraphRef(decls[a])>>
                          /\ Graph.callees = <<>>

\* the graph of b, declared before its caller a
C12_Witness ==
    /\ Graphed /\ OnlyCallIs(2, 1)
    /\ GraphMethod = GraphAnalysis.methodDecls[1]
    /\ Graph.callers = <<GraphRef(GraphAnalysis.methodDecls[2])>>
    /\ Graph.callees = <<>>

C12_GraphOfCaller ==
    /\ Graphed /\ OnlyCallIs(1, 2)
    /\ GraphMethod = GraphAnalysis.methodDecls[1]
    /\ Len(Graph.callees) = 1 /\ Graph.callers = <<>>

\* the invocations of the method under the cursor made from the method that
\* a caller ref names, as indices into the invocation list
CallsFrom(ref) ==
    {i \in 1..Len(GraphAnalysis.methodInvocations) :
        /\ SameCall(GraphAnalysis.methodInvocations[i], GraphMethod)
        /\ \E k \in 1..Len(GraphAnalysis.methodDecls) :
              /\ Within(GraphAnalysis.methodInvocations[i], GraphAnalysis.methodDecls[k])
              /\ GraphAnalysis.methodDecls[k].name = ref.methodName
              /\ GraphAnalysis.methodDecls[k].startLine = ref.line}

Lowest(indices) == CHOOSE i \in indices : \A j \in indices : i <= j

\* C13: no two caller refs of a graph have the same method name and start
\* line, however often a caller invokes the method, and the callers stand
\* in the order of the first matching invocation of each.
C13_CallersOncePerNameAndLine ==
    Graphed =>
        \A k \in 1..Len(Graph.callers), l \in 1..Len(Graph.callers) :
            k < l =>
                /\ <<Graph.callers[k].methodName, Graph.callers[k].line>>
                      # <<Graph.callers[l].methodName, Graph.callers[l].line>>
                /\ CallsFrom(Graph.callers[k]) # {}
                /\ CallsFrom(Graph.callers[l]) # {}
                /\ Lowest(CallsFrom(Graph.callers[k])) < Lowest(CallsFrom(Graph.callers[l]))

\* two callers, the first of which invokes the method twice
C13_Witness ==
    /\ Graphed /\ Len(Graph.callers) = 2
    /\ Cardinality(CallsFrom(Graph.callers[1])) = 2

\* the caller refs of the invocations in `calls` (indices): the ref of the
\* first declaration whose body holds the invocation, the outermost one
\* where bodies nest
CallerRefs(calls) ==
    {GraphRef(GraphAnalysis.methodDecls[k]) :
        k \in {n \in 1..Len(GraphAnalysis.methodDecls) :
                  \E i \in calls :
                      /\ Within(GraphAnalysis.methodInvocations[i],
                                GraphAnalysis.methodDecls[n])
                      /\ \A m \in 1..(n - 1) :
                             ~Within(GraphAnalysis.methodInvocations[i],
                                     GraphAnalysis.methodDecls[m])}}

MatchingCalls ==
    {i \in 1..Len(GraphAnalysis.methodInvocations) :
        SameCall(GraphAnalysis.methodInvocations[i], GraphMethod)}

ListedCallers == {Graph.callers[k] : k \in 1..Len(Graph.callers)}

\* C14, as stated: the callers are the methods whose body contains an
\* invocation with the name and the argument count of the method under the
\* cursor, the invocations within that method itself left aside.
C14_AsStated ==
    Graphed =>
        ListedCallers =
            CallerRefs({i \in MatchingCalls :
                           ~Within(GraphAnalysis.methodInvocations[i], GraphMethod)})

\* C14, amended: the callers are the methods whose body contains an
\* invocation with the name and the argument count of the method under the
\* cursor, anywhere in the file: an invocation within that method itself
\* counts too, and makes the method one of its own callers.  Where method
\* bodies nest, the caller is the first declaration whose body holds the
\* invocation.
C14_CallersFromWholeFile ==
    Graphed => ListedCallers = CallerRefs(MatchingCalls)

\* a method that calls itself and is called by the other method
C14_Witness ==
    /\ Graphed /\ Len(Graph.callers) = 2
    /\ GraphRef(GraphMethod) \in ListedCallers

\* the invocations that yield a callee: within the method under the cursor,
\* and declared in the file with that name and that number of parameters
ResolvedCalls ==
    SelectSeq(GraphAnalysis.methodInvocations,
        LAMBDA c : /\ Within(c, GraphMethod)
                   /\ \E k \in 1..Len(GraphAnalysis.methodDecls) :
                         SameCall(c, GraphAnalysis.methodDecls[k]))

\* C15: the callees are, in the order of the invocation list, one ref for
\* each invocation that starts within the method under the cursor and whose
\* name and argument count some method declaration of the file has; the
\* other invocations yield nothing.
C15_CalleesResolved ==
    Graphed =>
        /\ Len(Graph.callees) = Len(ResolvedCalls)
        /\ \A k \in 1..Len(ResolvedCalls) :
              \E n \in 1..Len(GraphAnalysis.methodDecls) :
                  /\ SameCall(ResolvedCalls[k], GraphAnalysis.methodDecls[n])
                  /\ Graph.callees[k] = GraphRef(GraphAnalysis.methodDecls[n])

\* of two invocations in the method, b(x) matches no declaration and is
\* dropped, a() is kept
C15_Witness ==
    /\ Graphed /\ Len(Graph.callees) = 1 /\ Graph.callees[1].methodName = <<97>>
    /\ \E i \in 1..Len(GraphAnalysis.methodInvocations) :
          /\ Within(GraphAnalysis.methodInvocations[i], GraphMethod)
          /\ GraphAnalysis.methodInvocations[i].name = <<98>>
          /\ GraphAnalysis.methodInvocations[i].argsCount = 1
          /\ \E n \in 1..Len(GraphAnalysis.methodDecls) :
                GraphAnalysis.methodDecls[n].name = <<98>>

Counted == probe.fn = "countArgumentsFromText" /\ probe.done

\* the depth of one kind of bracket after the first i characters of a text:
\* an opening bracket adds one, a closing one takes one off unless the
\* depth is zero
RECURSIVE DepthAfter(_, _, _, _)
DepthAfter(text, open, close, i) ==
    IF i = 0 THEN 0
    ELSE LET before == DepthAfter(text, open, close, i - 1)
         IN  IF text[i] = open THEN before + 1
             ELSE IF text[i] = close /\ before > 0 THEN before - 1
             ELSE before

\* the commas outside parentheses, angle brackets and square brackets
TopLevelCommas(text) ==
    {i \in 1..Len(text) :
        /\ text[i] = 44
        /\ DepthAfter(text, 40, 41, i) = 0
        /\ DepthAfter(text, 60, 62, i) = 0
        /\ DepthAfter(text, 91, 93, i) = 0}

\* C16: countArgumentsFromText returns 0 for an empty or white-space
\* argument text and otherwise 1 plus the number of commas outside
\* parentheses, angle brackets and square brackets, each kind with a depth
\* of its own that never falls below zero; a, b.g(c, d), e counts 3.
C16_TopLevelCommas ==
    Counted =>
        /\ probe.count =
              IF \A i \in 1..Len(probe.text) : IsSpace(probe.text[i]) THEN 0
              ELSE 1 + Cardinality(TopLevelCommas(probe.text))
        /\ probe.text = ArgsOfThree => probe.count = 3
        /\ probe.text = <<>> => probe.count = 0

\* a closing parenthesis too many, then a comma: the comma counts
C16_Witness == Counted /\ probe.text = <<41, 44, 97>> /\ probe.count = 2

C16_NestedCommas == Counted /\ probe.text = ArgsOfThree /\ probe.count = 3

Scanned == probe.fn = "scanInvocationsInText" /\ probe.done

\* C17: the commas of an array initializer are no argument separators:
\* the invocation f(new int[]{1,2,3}) is recorded with argument count 1.
C17_InitializerIsOneArgument ==
    Scanned /\ probe.text = CallOfF(ArgsWithInitializer) =>
        /\ Len(probe.invocations) = 1
        /\ probe.invocations[1].name = <<102>>
        /\ probe.invocations[1].argsCount = 1

Analyzed == probe.fn = "analyzeClassFile" /\ probe.done /\ ~probe.out.threw

\* a class file with one member was analyzed: the modifiers of the member
\* as written, and what the analysis says of it
MemberAnalyzed == Analyzed /\ probe.file \in MemberFiles
WrittenModifiers == probe.file.members[1].mods
SummaryOfMember ==
    IF probe.file.members[1].kind = "field" THEN probe.out.value.summary.fields[1]
    ELSE probe.out.value.summary.methods[1]

\* the first access modifier of a list of modifiers in source order
RECURSIVE FirstAccessModifier(_)
FirstAccessModifier(mods) ==
    IF mods = <<>> THEN "package"
    ELSE IF Head(mods) = W_public THEN "public"
    ELSE IF Head(mods) = W_private THEN "private"
    ELSE IF Head(mods) = W_protected THEN "protected"
    ELSE FirstAccessModifier(Tail(mods))

\* C18: the visibility of a field or a method is its first access modifier
\* (public, private, protected) in source order, and package when it has
\* none; `protected static` gives protected and static.
C18_FirstAccessModifier ==
    MemberAnalyzed =>
        /\ Len(probe.out.value.summary.fields) + Len(probe.out.value.summary.methods) = 1
        /\ SummaryOfMember.visibility = FirstAccessModifier(WrittenModifiers)
        /\ WrittenModifiers = <<>> => SummaryOfMember.visibility = "package"
        /\ WrittenModifiers = <<W_protected, W_static>> =>
              SummaryOfMember.visibility = "protected" /\ SummaryOfMember.isStatic

\* protected static void m(){}
C18_Witness ==
    /\ MemberAnalyzed /\ probe.file.members[1].kind = "method"
    /\ WrittenModifiers = <<W_protected, W_static>>
    /\ SummaryOfMember.visibility = "protected" /\ SummaryOfMember.isStatic

\* private public int p;  and  int p;
C18_TwoAccessModifiers ==
    /\ MemberAnalyzed /\ probe.file.members[1].kind = "field"
    /\ WrittenModifiers = <<W_private, W_public>>
    /\ SummaryOfMember.visibility = "private" /\ ~SummaryOfMember.isStatic

C18_NoModifier ==
    /\ MemberAnalyzed /\ WrittenModifiers = <<>>
    /\ SummaryOfMember.visibility = "package"

ServiceAnalyzed == Analyzed /\ probe.file \in ServiceFiles

\* the header of the class (from `class` to its body) has `extends
\* SystemService`
HeaderExtendsSystemService == probe.file.super = <<W_SystemService>>

\* C20: analyzeJavaSource yields a system-service summary if and only if
\* the header of the primary class has `extends SystemService`, whatever
\* the body holds; class S extends SystemService{void onStart(){}} yields
\* one with onStartLine set and no boot phases and no binder services.
C20_SummaryIffHeaderExtends ==
    ServiceAnalyzed =>
        /\ (probe.out.value.systemService # <<>>) <=> HeaderExtendsSystemService
        /\ (/\ HeaderExtendsSystemService
            /\ probe.file.members = <<Method(<<>>, W_onStart, 0, << <<>> >>)>>) =>
              /\ probe.out.value.systemService # <<>>
              /\ probe.out.value.systemService[1].onStartLine # <<>>
              /\ probe.out.value.systemService[1].onBootPhases = <<>>
              /\ probe.out.value.systemService[1].binderServices = <<>>

Warned == probe.fn = "analyzeConcurrencyWarnings" /\ probe.done

BinderWarning == "Binder call inside synchronized block may block other threads."
NestedWarning == "Nested synchronized blocks detected."
WarningMessages == [k \in 1..Len(probe.warnings) |-> probe.warnings[k].message]

\* pieces without lock: binder calls and line feeds, `calls` of them calls
PlainPieces(pieces) == \A k \in 1..Len(pieces) : pieces[k] \in {BinderCall, <<NEWLINE>>}
HasBinderCall(pieces) == \E k \in 1..Len(pieces) : pieces[k] = BinderCall

\* the document is one synchronized block with a binder call in it
OneLockWithCall ==
    LET n == Len(probe.pieces)
    IN  /\ n >= 3 /\ probe.pieces[1] = OpenLock /\ probe.pieces[n] = CloseLock
        /\ PlainPieces(SubSeq(probe.pieces, 2, n - 1))
        /\ HasBinderCall(SubSeq(probe.pieces, 2, n - 1))

\* the document is one synchronized block that holds one nested block, from
\* piece i to piece j, and a binder call somewhere
NestedLockWithCall(i, j) ==
    LET n == Len(probe.pieces)
    IN  /\ 1 < i /\ i < j /\ j < n
        /\ probe.pieces[1] = OpenLock /\ probe.pieces[n] = CloseLock
        /\ probe.pieces[i] = OpenLock /\ probe.pieces[j] = CloseLock
        /\ PlainPieces(SubSeq(probe.pieces, 2, i - 1))
        /\ PlainPieces(SubSeq(probe.pieces, i + 1, j - 1))
        /\ PlainPieces(SubSeq(probe.pieces, j + 1, n - 1))
        /\ HasBinderCall(SubSeq(probe.pieces, 2, n - 1))

CallInNested(i, j) == HasBinderCall(SubSeq(probe.pieces, i + 1, j - 1))

\* C19, as stated: one synchronized block with a transact( call gives the
\* one binder warning; a synchronized block with a transact( call and a
\* nested synchronized block gives two warnings, binder and nested.
C19_AsStated ==
    Warned =>
        /\ OneLockWithCall => WarningMessages = <<BinderWarning>>
        /\ \A i \in 1..MaxPieces, j \in 1..MaxPieces :
              NestedLockWithCall(i, j) =>
                  WarningMessages = <<BinderWarning, NestedWarning>>

\* C19, amended: one synchronized block with a transact( call gives the one
\* binder warning; a synchronized block with a transact( call and a nested
\* synchronized block gives two warnings, binder and nested, when the call
\* is outside the nested block, and a third, for the nested block, when the
\* call is inside it.
C19_NestedBlockWarnsToo ==
    Warned =>
        /\ OneLockWithCall => WarningMessages = <<BinderWarning>>
        /\ \A i \in 1..MaxPieces, j \in 1..MaxPieces :
              NestedLockWithCall(i, j) =>
                  WarningMessages =
                      IF CallInNested(i, j)
                      THEN <<BinderWarning, NestedWarning, BinderWarning>>
                      ELSE <<BinderWarning, NestedWarning>>

\* synchronized(l){synchronized(l){b.transact();}}: three warnings
C19_Witness ==
    /\ Warned /\ NestedLockWithCall(2, 4) /\ CallInNested(2, 4)
    /\ Len(probe.warnings) = 3

C19_CallBesideNested ==
    /\ Warned /\ NestedLockWithCall(3, 4) /\ ~CallInNested(3, 4)
    /\ Len(probe.warnings) = 2

C19_OneLock == Warned /\ OneLockWithCall /\ Len(probe.warnings) = 1

-----------------------------------------------------------------------------
(* The class names of a summary *)

\* the names of the classes a class file declares, in the order a
\* depth-first walk of its tree meets their declarations
RECURSIVE DeclaredClassNames(_)
DeclaredClassNames(file) ==
    <<file.name>>
    \o ConcatAll([k \in 1..Len(file.members) |->
           IF file.members[k].kind = "class"
           THEN DeclaredClassNames(file.members[k].file)
           ELSE <<>>])

\* C21: the class name of a summary is the name of the first class the
\* file declares, the inner classes are the names of its other classes in
\* discovery order, and none of them is the class name.
C21_ClassNames ==
    ServiceAnalyzed =>
        LET names == DeclaredClassNames(probe.file)
            summary == probe.out.value.summary
        IN  /\ summary.className = Head(names)
            /\ summary.innerClasses = Tail(names)
            /\ \A k \in 1..Len(summary.innerClasses) :
                   summary.innerClasses[k] # summary.className

-----------------------------------------------------------------------------
(* The ranges of the method declarations *)

\* the method declarations of the analysis just made, of a class file on
\* its own or for a call graph
AnalyzedDecls ==
    IF probe.fn = "analyzeClassFile" /\ probe.done /\ ~probe.out.threw
    THEN probe.out.value.methodDecls
    ELSE IF probe.fn = "buildMethodCallGraph" /\ probe.done /\ probe.analysis # <<>>
    THEN probe.analysis[1].methodDecls
    ELSE <<>>

WellFormedRanges(decl) ==
    /\ decl.startOffset <= decl.endOffset
    /\ (decl.bodyStartOffset = <<>>) <=> (decl.bodyEndOffset = <<>>)
    /\ decl.bodyStartOffset # <<>> =>
          /\ decl.startOffset <= decl.bodyStartOffset[1]
          /\ decl.bodyStartOffset[1] <= decl.bodyEndOffset[1]
          /\ decl.bodyEndOffset[1] <= decl.endOffset

\* C22: every method declaration of an analysis has startOffset <=
\* endOffset and either no body offset or both, with startOffset <=
\* bodyStartOffset <= bodyEndOffset <= endOffset.
C22_WellFormedRanges ==
    \A k \in 1..Len(AnalyzedDecls) : WellFormedRanges(AnalyzedDecls[k])

\* two methods, the second with a body that is not empty
C22_Witness ==
    /\ Len(AnalyzedDecls) = 2
    /\ AnalyzedDecls[2].bodyStartOffset # <<>>
    /\ AnalyzedDecls[2].startOffset < AnalyzedDecls[2].bodyStartOffset[1]
    /\ AnalyzedDecls[2].bodyStartOffset[1] + 2 < AnalyzedDecls[2].bodyEndOffset[1]
    /\ AnalyzedDecls[2].bodyEndOffset[1] = AnalyzedDecls[2].endOffset

\* void b();  the body is the semicolon
C22_NoBlock ==
    /\ Len(AnalyzedDecls) >= 1
    /\ \E k \in 1..Len(AnalyzedDecls) :
           /\ AnalyzedDecls[k].bodyStartOffset # <<>>
           /\ AnalyzedDecls[k].bodyStartOffset[1] + 1 = AnalyzedDecls[k].bodyEndOffset[1]

-----------------------------------------------------------------------------
(* The timelines of buildLifecycleTimeline *)

\* the analysis the scan got for a file: the object of the file's entry
AnalysisOfFile(uri) == heap[mapGet(cache, uri)[1].analysis].analysis

\* the declarations of an analysis that a timeline is to list
LifecycleDecls(analysis) ==
    SelectSeq(analysis.methodDecls,
              LAMBDA method : \/ method.name = W_main
                              \/ method.name = W_startBootstrapServices
                              \/ method.name = W_startCoreServices
                              \/ method.name = W_startOtherServices)

\* how often a sequence holds a value
CountOf(seq, value) == Cardinality({k \in 1..Len(seq) : seq[k] = value})

\* the entries are those of the declarations, each as often
SameEntries(entries, decls) ==
    LET wanted == [k \in 1..Len(decls) |->
                      [name |-> decls[k].name, line |-> decls[k].startLine]]
    IN  /\ Len(entries) = Len(wanted)
        /\ \A k \in 1..Len(wanted) :
               CountOf(entries, wanted[k]) = CountOf(wanted, wanted[k])

AscendingByLine(entries) ==
    \A a \in 1..Len(entries), b \in 1..Len(entries) :
        a < b => entries[a].line <= entries[b].line

\* C23: the entries of every timeline of buildLifecycleTimeline are in
\* ascending order of line and are exactly the method declarations of the
\* file named main, startBootstrapServices, startCoreServices or
\* startOtherServices, one entry for each declaration.
C23_TimelineSortedAndComplete ==
    host.kind = "lifecycle" =>
        \A i \in 1..Len(host.results) :
            LET timeline == host.results[i].value
                analysis == AnalysisOfFile(host.results[i].file)
            IN  /\ timeline.filePath = host.results[i].file
                /\ AscendingByLine(timeline.entries)
                /\ SameEntries(timeline.entries, LifecycleDecls(analysis))

\* the timeline of the file with startOtherServices, a, main and main
C23_Witness ==
    /\ host.kind = "lifecycle"
    /\ \E i \in 1..Len(host.results) :
           LET timeline == host.results[i].value
           IN  /\ Len(AnalysisOfFile(host.results[i].file).methodDecls) = 4
               /\ Len(timeline.entries) = 3
               /\ timeline.entries[1].name = W_startOtherServices
               /\ timeline.entries[2].name = W_main
               /\ timeline.entries[3].name = W_main
               /\ timeline.entries[1].line < timeline.entries[2].line
               /\ timeline.entries[2].line < timeline.entries[3].line

-----------------------------------------------------------------------------
(* The method under the cursor *)

\* buildMethodCallGraph was called and got an analysis
GraphCalled == probe.fn = "buildMethodCallGraph" /\ probe.done /\ probe.analysis # <<>>

\* the offsets of the first and of the last character of the k-th member
FirstOffset(k) == DeclarationOffset(probe.file, k)
LastOffset(k) ==
    FirstOffset(k) + Len(ItemsText(MethodItems(probe.file.members[k]))) - 1

\* the members whose declaration holds the cursor
MembersAtCursor ==
    {k \in 1..Len(probe.file.members) :
        FirstOffset(k) <= probe.offset /\ probe.offset <= LastOffset(k)}

\* C24: the range [startOffset, endOffset] of a method declaration starts
\* at the first token of the declaration (return type included), and
\* buildMethodCallGraph returns undefined only when the cursor lies in no
\* method declaration; otherwise the current method is the first one whose
\* range holds the cursor.
C24_RangeOfAllTokens ==
    GraphCalled /\ probe.file \in GraphFiles =>
        LET decls == probe.analysis[1].methodDecls
        IN  /\ \A k \in 1..Len(decls) : decls[k].startOffset = FirstOffset(k)
            /\ probe.graph = <<>> => MembersAtCursor = {}
            /\ probe.graph # <<>> =>
                  \E k \in 1..Len(decls) :
                      /\ probe.offset >= decls[k].startOffset
                      /\ probe.offset <= decls[k].endOffset
                      /\ \A j \in 1..(k - 1) :
                             probe.offset < decls[j].startOffset
                             \/ probe.offset > decls[j].endOffset
                      /\ Graph.method = buildMethodLabel(
                             probe.analysis[1].summary.className, decls[k])

\* the cursor on the return type of a method: no graph
C24_CursorOnReturnType ==
    /\ GraphCalled /\ probe.cursor > 0 /\ probe.part = "result"
    /\ probe.cursor \in MembersAtCursor
    /\ probe.graph = <<>>

\* the cursor on the return type of a method that follows another without
\* white space: the graph of the method before it
C24_CursorBehindMethod ==
    /\ GraphCalled /\ probe.cursor = 2 /\ probe.part = "result"
    /\ probe.file.members[1].name # probe.file.members[2].name
    /\ probe.graph # <<>>
    /\ GraphMethod = probe.analysis[1].methodDecls[1]

-----------------------------------------------------------------------------
(* The matching parenthesis *)

\* where the characters of a text stand, read from the index `open` on:
\* lexical[i] is <<q, skipped>> for the character at index i, q the quote
\* of the literal the character stands in (0: in none; the quote that opens
\* a literal stands in none, the one that closes it in the literal) and
\* skipped whether a backslash of the literal stands right before it
LexicalFrom(text, open) ==
    LET lexical[i \in open..Len(text)] ==
            IF i = open THEN <<0, FALSE>>
            ELSE LET before == lexical[i - 1]
                     c == At(text, i - 1)
                 IN  IF before[2] THEN <<before[1], FALSE>>
                     ELSE IF before[1] # 0
                     THEN IF c = 92 THEN <<before[1], TRUE>>
                          ELSE IF c = before[1] THEN <<0, FALSE>>
                          ELSE before
                     ELSE IF c = 34 \/ c = 39 THEN <<c, FALSE>>
                     ELSE before
    IN  lexical

\* the parentheses `paren` outside the literals, from open to i
ParensOutside(text, open, i, paren) ==
    {j \in open..i : At(text, j) = paren /\ LexicalFrom(text, open)[j] = <<0, FALSE>>}

\* the close parentheses that balance the open parenthesis at `open`
Balancing(text, open) ==
    {i \in open..(Len(text) - 1) :
        /\ i \in ParensOutside(text, open, i, 41)
        /\ Cardinality(ParensOutside(text, open, i, 40))
               = Cardinality(ParensOutside(text, open, i, 41))}

Matched == probe.fn = "findMatchingParen" /\ probe.done

\* C25: findMatchingParen returns the index of the first close parenthesis
\* at which the parentheses outside the quoted literals balance, a
\* backslash in a literal taking the next character with it, and -1 when
\* there is none; scanInvocationsInText emits the invocation of a name
\* exactly when its open parenthesis has such a close parenthesis.
C25_MatchingParen ==
    /\ Matched =>
          LET closing == Balancing(probe.text, probe.openIndex)
          IN  IF closing = {} THEN probe.close = -1
              ELSE /\ probe.close \in closing
                   /\ \A i \in closing : probe.close <= i
    /\ (Scanned /\ probe.text \in ParenTexts) =>
          /\ (\E k \in 1..Len(probe.invocations) : probe.invocations[k].startOffset = 0)
                 <=> Balancing(probe.text, 1) # {}
          /\ \A k \in 1..Len(probe.invocations) :
                 \E open \in 1..(Len(probe.text) - 1) :
                     /\ At(probe.text, open) = 40
                     /\ Balancing(probe.text, open) # {}

\* f(")")  : the parenthesis in the literal is not the match
C25_Witness ==
    /\ Matched /\ probe.text = <<102, 40, 34, 41, 34, 41>>
    /\ probe.close = 5

\* f("\")  : the backslash takes the quote with it, nothing matches
C25_EscapedQuote ==
    /\ Matched /\ probe.text = <<102, 40, 34, 92, 34, 41>>
    /\ probe.close = -1

\* f(()    : not emitted
C25_Unmatched ==
    /\ Scanned /\ probe.text = <<102, 40, 40, 41>>
    /\ probe.invocations = <<>>

-----------------------------------------------------------------------------
(* The line index *)

Indexed == probe.fn = "offsetToLine" /\ probe.done

\* the offsets of the line feeds of a source text
LineFeeds(source) ==
    {i \in 0..(TextLength(source) - 1) : charCodeAt(source, i) = NEWLINE}

\* C26: buildLineIndex returns a strictly ascending list that starts with 0
\* and has one further entry, the offset of the break plus 1, for each line
\* feed; offsetToLine returns the 1-based index of the greatest line start
\* <= offset, and 1 for an offset below the first; its result lies in
\* 1..number of lines and does not fall as the offset grows.
C26_LineIndex ==
    Indexed =>
        LET starts == probe.lineStarts
            lines == probe.lines
        IN  /\ starts[1] = 0
            /\ \A k \in 1..(Len(starts) - 1) : starts[k] < starts[k + 1]
            /\ Len(starts) = 1 + Cardinality(LineFeeds(probe.source))
            /\ {starts[k] : k \in 2..Len(starts)}
                   = {i + 1 : i \in LineFeeds(probe.source)}
            /\ \A offset \in DOMAIN lines :
                   /\ lines[offset] \in 1..Len(starts)
                   /\ offset < starts[1] => lines[offset] = 1
                   /\ offset >= starts[1] =>
                          /\ starts[lines[offset]] <= offset
                          /\ \A k \in 1..Len(starts) :
                                 starts[k] <= offset => k <= lines[offset]
            /\ \A a \in DOMAIN lines, b \in DOMAIN lines :
                   a <= b => lines[a] <= lines[b]

\* a text of three lines, the second one empty
C26_Witness ==
    /\ Indexed /\ probe.source = Text(0, <<97, 10, 10, 97>>)
    /\ probe.lineStarts = <<0, 2, 3>>
    /\ probe.lines[0 - 1] = 1 /\ probe.lines[1] = 1 /\ probe.lines[2] = 2
    /\ probe.lines[3] = 3 /\ probe.lines[6] = 3

\* a carriage return is no line break of its own
C26_CarriageReturn ==
    /\ Indexed /\ probe.source = Text(1, <<97, 13, 10, 97>>)
    /\ probe.lineStarts = <<0, 4>>

-----------------------------------------------------------------------------
(* Overlapping calls on one document.  getAnalysis is an async function     *)
(* without an await: a call runs from its first statement to its return in *)
(* one step.  getAnalysisForUri awaits openTextDocument and runs the rest,  *)
(* getAnalysis included, in one step when the document arrives; calls that  *)
(* wait may resume in any order, and the token of a waiting call may be set *)
(* meanwhile.  The document keeps its identity and its text.  For the       *)
(* record: `returned` lists the calls that returned, `parses` counts the    *)
(* calls of the parser.                                                     *)

MaxOverlap == 4

\* the text of the document: parsed, rejected, or parsed but too large
OverlapTexts ==
    {Text(0, <<>>), Text(0, <<SEMI>>), MainSource, Text(0, <<LCURLY>>),
     Text(MAX_PARSE_BYTES, <<SEMI>>)}

HostOverlap(text) ==
    [document |-> [uri |-> UriZygote, languageId |-> "java", text |-> text],
     waiting |-> {}, started |-> 0, objects |-> 0, parses |-> 0, returned |-> <<>>]

InitOverlap ==
    /\ cache = {}
    /\ heap = <<>>
    /\ last = NoCall
    /\ probe = NoProbe
    /\ host \in {HostOverlap(text) : text \in OverlapTexts}

\* a call returns `out`: the Map, the object it created, the records
ReturnOverlap(op, cancelled, out, started, waiting) ==
    /\ cache' = out.cache
    /\ heap' = IF out.created = <<>> THEN heap
               ELSE [r \in DOMAIN heap \cup {host.objects + 1} |->
                        IF r = host.objects + 1
                        THEN [analysis |-> out.created[1], source |-> host.document.text]
                        ELSE heap[r]]
    /\ host' = [host EXCEPT
                  !.started = started,
                  !.waiting = waiting,
                  !.objects = IF out.created = <<>> THEN @ ELSE @ + 1,
                  !.parses = IF out.parsed THEN @ + 1 ELSE @,
                  !.returned = Append(@, [op |-> op, cancelled |-> cancelled,
                                          result |-> out.result])]
    /\ UNCHANGED <<last, probe>>

\* getAnalysis(document, token) is called and returns
CallGetAnalysis ==
    /\ host.started < MaxOverlap
    /\ \E cancelled \in BOOLEAN :
       \E out \in {getAnalysis(cache, host.document, cancelled, host.objects + 1)} :
           ReturnOverlap("getAnalysis", cancelled, out, host.started + 1, host.waiting)

\* getAnalysisForUri(uri, token) is called and awaits openTextDocument
CallGetAnalysisForUri ==
    /\ host.started < MaxOverlap
    /\ \E cancelled \in BOOLEAN :
           host' = [host EXCEPT
                      !.started = @ + 1,
                      !.waiting = @ \cup {[id |-> host.started + 1,
                                           cancelled |-> cancelled]}]
    /\ UNCHANGED <<cache, heap, last, probe>>

\* the token of a waiting call is set
TokenSet ==
    /\ \E call \in host.waiting :
           /\ ~call.cancelled
           /\ host' = [host EXCEPT
                         !.waiting = (@ \ {call})
                                     \cup {[id |-> call.id, cancelled |-> TRUE]}]
    /\ UNCHANGED <<cache, heap, last, probe>>

\* openTextDocument delivers the document to a waiting call, which runs on
\* to its return
DocumentOpened ==
    \E call \in host.waiting :
    \E out \in {getAnalysisForUri(cache, host.document, call.cancelled,
                                  host.objects + 1)} :
        ReturnOverlap("getAnalysisForUri", call.cancelled, out, host.started,
                      host.waiting \ {call})

NextOverlap == CallGetAnalysis \/ CallGetAnalysisForUri \/ TokenSet \/ DocumentOpened

SpecOverlap == InitOverlap /\ [][NextOverlap]_vars

\* the parser accepts the text of the document
OverlapParseable == ~parse(host.document.text).threw

\* the text of the document is within the size limit
OverlapWithinLimit == byteLength(host.document.text) <= MAX_PARSE_BYTES

\* C27 as stated: for a parseable text, the parser runs at most once and
\* every call returns the same analysis object.
C27_AsStated ==
    OverlapParseable =>
        /\ host.parses <= 1
        /\ \A a \in 1..Len(host.returned), b \in 1..Len(host.returned) :
               /\ host.returned[a].result # <<>>
               /\ host.returned[a].result = host.returned[b].result

\* C27: for a parseable text within the size limit, under any interleaving
\* of getAnalysis and getAnalysisForUri calls on the document the parser
\* runs at most once and every call whose token is not set returns the same
\* analysis object; a call whose token is set returns that object or
\* undefined.
C27_OnceAndSame ==
    (OverlapParseable /\ OverlapWithinLimit) =>
        /\ host.parses <= 1
        /\ \A a \in 1..Len(host.returned), b \in 1..Len(host.returned) :
               /\ ~host.returned[a].cancelled => host.returned[a].result # <<>>
               /\ (host.returned[a].result # <<>> /\ host.returned[b].result # <<>>)
                      => host.returned[a].result = host.returned[b].result

\* two getAnalysisForUri calls that waited together and a getAnalysis call
\* made meanwhile got the one object, and the parser ran once
C27_Witness ==
    /\ OverlapParseable /\ OverlapWithinLimit
    /\ host.parses = 1 /\ host.objects = 1
    /\ Len(host.returned) = 3 /\ host.waiting = {}
    /\ host.returned[1].op = "getAnalysis"
    /\ host.returned[2].op = "getAnalysisForUri"
    /\ host.returned[3].op = "getAnalysisForUri"
    /\ \A k \in 1..3 : host.returned[k].result = <<1>> /\ ~host.returned[k].cancelled

-----------------------------------------------------------------------------
(* Calls whose token is set *)

\* the entry of the document before the call has the hash and the size of
\* the document's text
MatchingEntryBefore ==
    /\ EntryBefore # <<>>
    /\ EntryBefore[1].hash = hashText(last.text)
    /\ EntryBefore[1].size = LastSize

\* C28: a getAnalysis call whose token is set does not call the parser and
\* leaves the cache as it was; for a Java document it returns the degenerate
\* analysis when the text is over the size limit, the cached analysis when
\* the entry of the document matches the text in hash and size, and
\* undefined otherwise.  getAnalysisForUri with a set token returns
\* undefined, a matching entry or not.
C28_SetTokenChangesNothing ==
    /\ (last.op = "getAnalysis" /\ last.cancelled) =>
          /\ ~last.parsed
          /\ cache = last.before
          /\ last.languageId = "java" =>
                IF LastSize > MAX_PARSE_BYTES
                THEN /\ last.result # <<>>
                     /\ last.result[1] \notin RefsOf(last.before)
                     /\ heap[last.result[1]].analysis.methodDecls = <<>>
                     /\ heap[last.result[1]].analysis.summary.methods = <<>>
                     /\ heap[last.result[1]].analysis.summary.className
                            = baseName(last.uri[1])
                ELSE IF MatchingEntryBefore
                THEN last.result = <<EntryBefore[1].analysis>>
                ELSE last.result = <<>>
    /\ (last.op = "getAnalysisForUri" /\ last.cancelled) =>
          /\ ~last.parsed
          /\ cache = last.before
          /\ last.result = <<>>

\* a set token and a matching entry: getAnalysis returned its object
C28_Witness ==
    /\ last.op = "getAnalysis" /\ last.cancelled /\ last.languageId = "java"
    /\ MatchingEntryBefore
    /\ last.result = <<EntryBefore[1].analysis>>
    /\ cache = last.before

\* a set token and a matching entry: getAnalysisForUri returned undefined
C28_ForUriWithEntry ==
    /\ last.op = "getAnalysisForUri" /\ last.cancelled
    /\ MatchingEntryBefore /\ last.result = <<>>

\* a set token and an entry made from another text: undefined, and the
\* entry stays
C28_StaleEntry ==
    /\ last.op = "getAnalysis" /\ last.cancelled /\ last.languageId = "java"
    /\ LastSize <= MAX_PARSE_BYTES
    /\ EntryBefore # <<>> /\ ~MatchingEntryBefore
    /\ last.result = <<>> /\ EntryAfter = EntryBefore

\* a set token and a text over the limit: the degenerate analysis
C28_Oversized ==
    /\ last.op = "getAnalysis" /\ last.cancelled /\ last.languageId = "java"
    /\ LastSize > MAX_PARSE_BYTES /\ last.result # <<>>

-----------------------------------------------------------------------------
(* Nested method bodies *)

\* the declarations of an analysis whose body range holds an offset, in
\* discovery order
EnclosingBodies(analysis, offset) ==
    SelectSeq(analysis.methodDecls,
        LAMBDA decl : /\ decl.bodyStartOffset # <<>> /\ decl.bodyEndOffset # <<>>
                      /\ decl.bodyStartOffset[1] <= offset
                      /\ offset <= decl.bodyEndOffset[1])

\* how many records of methodInvocations stand at an offset
RecordsAt(analysis, offset) ==
    Cardinality({i \in 1..Len(analysis.methodInvocations) :
                    analysis.methodInvocations[i].startOffset = offset})

\* the call sites of an analysis that lie in more than one method body
NestedCallSites(analysis) ==
    {analysis.methodInvocations[i].startOffset :
        i \in {j \in 1..Len(analysis.methodInvocations) :
                  Len(EnclosingBodies(analysis,
                          analysis.methodInvocations[j].startOffset)) > 1}}

\* C29: a call site is recorded in methodInvocations once per method body
\* that encloses it, and in the graph of the called method a call site of
\* nested bodies counts for the first declaration in discovery order whose
\* body holds it, the outermost one, never for an inner one.
C29_NestedCallSites ==
    GraphCalled =>
        LET analysis == probe.analysis[1]
        IN  /\ \A i \in 1..Len(analysis.methodInvocations) :
                   LET offset == analysis.methodInvocations[i].startOffset
                   IN  RecordsAt(analysis, offset)
                           = Len(EnclosingBodies(analysis, offset))
            /\ probe.graph # <<>> =>
                   \A i \in 1..Len(analysis.methodInvocations) :
                       LET invocation == analysis.methodInvocations[i]
                           bodies == EnclosingBodies(analysis, invocation.startOffset)
                       IN  callsMethod(invocation, GraphMethod) /\ Len(bodies) > 1 =>
                               /\ \E c \in 1..Len(Graph.callers) :
                                      /\ Graph.callers[c].methodName = bodies[1].name
                                      /\ Graph.callers[c].line = bodies[1].startLine
                               /\ \A k \in 2..Len(bodies) :
                                      \A c \in 1..Len(Graph.callers) :
                                          Graph.callers[c].methodName # bodies[k].name

\* the graph of b where b is called from a method of a class declared in
\* the body of a: the call stands twice in methodInvocations, a calls b
C29_Witness ==
    /\ GraphCalled /\ probe.file \in NestedFiles /\ probe.graph # <<>>
    /\ GraphMethod.name = <<98>>
    /\ \E offset \in NestedCallSites(probe.analysis[1]) :
           RecordsAt(probe.analysis[1], offset) = 2
    /\ \E c \in 1..Len(Graph.callers) : Graph.callers[c].methodName = <<97>>
    /\ \A c \in 1..Len(Graph.callers) : Graph.callers[c].methodName # <<99>>

-----------------------------------------------------------------------------
(* The host's debounced update of the structure view (extension.ts,        *)
(* javaStructureView.ts): scheduleUpdate, the timer it sets, the update    *)
(* the timer runs, and deactivate.  Time is a number of milliseconds; the  *)
(* host's timers are the set of pending timeouts, each with its handle     *)
(* (id), the time it is due and the document its callback was given.  A    *)
(* timeout runs when the clock reaches its due time; an event that arrives *)
(* at that same instant may come before it or after it.  The host holds    *)
(* also the active editor's document, the summary the structure view       *)
(* shows and the diagnostics of the collection "aospConcurrency" (one list *)
(* of warnings per uri that was set).  For the record: `calls` lists the   *)
(* calls of scheduleUpdate, `updates` the runs of the update function,     *)
(* `deactivated` what deactivate cleared, and `update` the most recent run *)
(* of the update: its target, what getAnalysis returned, whether the view  *)
(* fired its change event, and the view and the diagnostics as they were   *)
(* before the run.  The one await of the update waits for a value that is  *)
(* already there: the run resumes within the same turn of the timer, and   *)
(* what it then reads (the analysis returned, the target it chose, the     *)
(* view, the diagnostics) is written by no other step of this host, so the *)
(* timer's callback and the update it starts are one step.                 *)

DebounceDelay == 200

TimeStep == 100
MaxCalls == 3
MaxTime == 500

W_lockedCall == OpenLock \o BinderCall \o CloseLock

\* the document of the editor the user works in, the same document with a
\* text the parser rejects (it has a lock warning), a Java document over the
\* size limit, and a document that is not Java
EditorDocument == [uri |-> UriZygote, languageId |-> "java", text |-> Text(0, <<SEMI>>)]
RejectedDocument == [uri |-> UriZygote, languageId |-> "java", text |-> Text(0, W_lockedCall)]
OversizedDocument == [uri |-> UriServer, languageId |-> "java", text |-> Text(MAX_PARSE_BYTES, <<SEMI>>)]
PlainDocument == [uri |-> UriServer, languageId |-> "plaintext", text |-> Text(0, <<SEMI>>)]

\* the documents of the editors the user turns to (<<>>: no editor), and
\* the documents that are opened
EditorDocuments == {<<>>, <<EditorDocument>>}
OpenedDocuments == {<<RejectedDocument>>, <<OversizedDocument>>, <<PlainDocument>>}

NoUpdate ==
    [ran |-> FALSE, target |-> <<>>, result |-> <<>>,
     fired |-> FALSE, summary |-> <<>>, diagnostics |-> {}]

HostDebounce ==
    [now |-> 0, debounceTimer |-> <<>>, timers |-> {}, nextId |-> 1,
     calls |-> <<>>, updates |-> <<>>, deactivated |-> <<>>,
     active |-> <<>>, summary |-> <<>>, diagnostics |-> {}, update |-> NoUpdate]

\* clearTimeout(handle): a handle that already ran, or none, clears nothing
clearTimeout(timers, handle) ==
    IF handle = <<>> THEN timers ELSE {t \in timers : t.id # handle[1]}

\* setTimeout(callback, delay), the callback closing over `document`
setTimeout(timers, id, now, delay, document) ==
    timers \cup {[id |-> id, due |-> now + delay, document |-> document]}

\* a faulty scheduleUpdate, for comparison: the pending timer is not cleared
scheduleUpdateKeepingTimer(h, document) ==
    [h EXCEPT !.timers = setTimeout(h.timers, h.nextId, h.now, DebounceDelay, document),
              !.debounceTimer = <<h.nextId>>,
              !.nextId = h.nextId + 1,
              !.calls = Append(h.calls, [at |-> h.now, id |-> h.nextId,
                                         document |-> document])]

scheduleUpdate(h, document) ==
    LET cleared == IF h.debounceTimer # <<>>
                   THEN clearTimeout(h.timers, h.debounceTimer)
                   ELSE h.timers
    IN  [h EXCEPT !.timers = setTimeout(cleared, h.nextId, h.now, DebounceDelay, document),
                  !.debounceTimer = <<h.nextId>>,
                  !.nextId = h.nextId + 1,
                  !.calls = Append(h.calls, [at |-> h.now, id |-> h.nextId,
                                             document |-> document])]

\* deactivate(): the timer held in debounceTimer is cleared, the handle stays
deactivate(h) ==
    LET cleared == IF h.debounceTimer # <<>>
                   THEN clearTimeout(h.timers, h.debounceTimer)
                   ELSE h.timers
    IN  [h EXCEPT !.timers = cleared,
                  !.deactivated = <<[at |-> h.now,
                                     cleared |-> {t.id : t \in h.timers \ cleared}]>>]

\* the timeout's callback: updateStructureFromDocument(document) starts
timerCallback(h, timer) ==
    [h EXCEPT !.timers = h.timers \ {timer},
              !.updates = Append(h.updates, [at |-> h.now, id |-> timer.id,
                                             document |-> timer.document])]

\* JavaStructureTreeProvider.update(summary)
structureUpdate(h, summary) ==
    [h EXCEPT !.summary = summary, !.update.fired = TRUE]

\* diagnostics.set(uri, warnings) replaces the list of the uri
diagnosticsSet(diagnostics, uri, warnings) ==
    {d \in diagnostics : d.uri # uri} \cup {[uri |-> uri, warnings |-> warnings]}

\* document.getText() is `pad` spaces and the body; the spaces hold no word,
\* brace or line feed, so the blocks found, their texts and their lines are
\* those of the body
documentWarnings(document) == analyzeConcurrencyWarnings(document.text.body)

\* the document the update works on
targetDoc(document, active) ==
    IF document # <<>> /\ document[1].languageId = "java" THEN document
    ELSE IF active # <<>> /\ active[1].languageId = "java" THEN active
    ELSE <<>>

\* the update from the return of getAnalysis on: `analysis` is the object
\* returned, or <<>> for undefined
afterGetAnalysisResetting(h, target, analysis) ==
    IF analysis = <<>> THEN structureUpdate(h, <<>>)
    ELSE [structureUpdate(h, <<analysis[1].summary>>)
             EXCEPT !.diagnostics = diagnosticsSet(h.diagnostics, target.uri,
                                                   documentWarnings(target))]

afterGetAnalysis(h, target, analysis) ==
    IF analysis = <<>> THEN h
    ELSE [structureUpdate(h, <<analysis[1].summary>>)
             EXCEPT !.diagnostics = diagnosticsSet(h.diagnostics, target.uri,
                                                   documentWarnings(target))]

\* the host at the start of a run of the update
started(h, target) ==
    [h EXCEPT !.update = [ran |-> TRUE, target |-> target,
                          result |-> <<>>, fired |-> FALSE,
                          summary |-> h.summary, diagnostics |-> h.diagnostics]]

\* activate(): with an active editor the first update is scheduled at once
InitDebounce ==
    /\ cache = {}
    /\ heap = <<>>
    /\ last = NoCall
    /\ \E active \in EditorDocuments :
           host = IF active = <<>> THEN HostDebounce
                  ELSE scheduleUpdate([HostDebounce EXCEPT !.active = active], active)
    /\ probe = NoProbe

\* an event may schedule an update: the extension is active, and the bounds
\* of the calls and of the clock leave room
CanSchedule ==
    /\ host.deactivated = <<>>
    /\ Len(host.calls) < MaxCalls
    /\ host.now + DebounceDelay <= MaxTime

\* onDidOpenTextDocument
OpenTextDocument ==
    \E document \in OpenedDocuments :
        /\ CanSchedule
        /\ host' = scheduleUpdate(host, document)
        /\ UNCHANGED <<cache, heap, last, probe>>

\* onDidChangeActiveTextEditor: the user turns to another editor, or closes
\* the last one
ChangeActiveEditor ==
    \E document \in EditorDocuments :
        /\ CanSchedule
        /\ document # host.active
        /\ host' = scheduleUpdate([host EXCEPT !.active = document], document)
        /\ UNCHANGED <<cache, heap, last, probe>>

\* the command aosp.refreshStructure
RefreshStructure ==
    /\ CanSchedule
    /\ host' = scheduleUpdate(host, host.active)
    /\ UNCHANGED <<cache, heap, last, probe>>

\* a timeout runs: its callback calls updateStructureFromDocument(document)
TimerFires ==
    \E timer \in host.timers :
        /\ timer.due <= host.now
        /\ LET target == targetDoc(timer.document, host.active)
               h == started(timerCallback(host, timer), target)
           IN  IF target = <<>>
               THEN /\ host' = structureUpdate(h, <<>>)
                    /\ UNCHANGED <<cache, heap, last>>
               ELSE \E out \in {getAnalysis(cache, target[1], FALSE, NewRef)} :
                       /\ Apply("getAnalysis", target[1], FALSE, out)
                       /\ host' = [afterGetAnalysis(h, target[1], analysisOf(out))
                                      EXCEPT !.update.result = out.result]
        /\ UNCHANGED probe

\* the host deactivates the extension: no event reaches it afterwards
Deactivate ==
    /\ host.deactivated = <<>>
    /\ host' = deactivate(host)
    /\ UNCHANGED <<cache, heap, last, probe>>

\* time passes, up to the next due time at most
Tick ==
    /\ host.now < MaxTime
    /\ \A timer \in host.timers : timer.due > host.now
    /\ LET next == host.now + TimeStep
           dues == {timer.due : timer \in host.timers}
           stop == IF \E d \in dues : d < next
                   THEN CHOOSE d \in dues : \A e \in dues : d <= e
                   ELSE next
       IN  host' = [host EXCEPT !.now = IF stop > MaxTime THEN MaxTime ELSE stop]
    /\ UNCHANGED <<cache, heap, last, probe>>

NextDebounce ==
    \/ OpenTextDocument
    \/ ChangeActiveEditor
    \/ RefreshStructure
    \/ TimerFires
    \/ Deactivate
    \/ Tick

\* a timeout is due: TimerFires is enabled, and only then
TimerDue == \E timer \in host.timers : timer.due <= host.now

\* the event loop runs a timeout that is due: WF_vars(TimerFires), with
\* ENABLED <<TimerFires>>_vars written as the state predicate it equals
TimersRun == []<>(~TimerDue) \/ []<><<TimerFires>>_vars

SpecDebounce ==
    InitDebounce /\ [][NextDebounce]_vars /\ TimersRun /\ WF_vars(Tick)

\* deactivate cleared the timer of the k-th call
ClearedByDeactivate(k) ==
    host.deactivated # <<>> /\ host.calls[k].id \in host.deactivated[1].cleared

\* calls i..j are one burst: each arrives less than the delay after the one
\* before, the call before the burst is more than the delay away, and so is
\* the call after it; a burst at the end of the calls is over when its
\* timer is no longer pending
IsBurst(i, j) ==
    /\ \A k \in i..(j - 1) : host.calls[k + 1].at - host.calls[k].at < DebounceDelay
    /\ i > 1 => host.calls[i].at - host.calls[i - 1].at > DebounceDelay
    /\ IF j < Len(host.calls)
       THEN host.calls[j + 1].at - host.calls[j].at > DebounceDelay
       ELSE host.timers = {}

UpdatesBetween(from, to) ==
    SelectSeq(host.updates, LAMBDA u : u.at >= from /\ u.at <= to)

\* the one update of the burst i..j
OneUpdateOf(i, j) ==
    LET ran == UpdatesBetween(host.calls[i].at, host.calls[j].at + DebounceDelay)
    IN  /\ Len(ran) = 1
        /\ ran[1].at = host.calls[j].at + DebounceDelay
        /\ ran[1].document = host.calls[j].document
        /\ ran[1].id = host.calls[j].id

OneUpdatePerBurst ==
    \A i \in 1..Len(host.calls) : \A j \in i..Len(host.calls) :
        IsBurst(i, j) => OneUpdateOf(i, j)

\* the same, with deactivate: the burst whose timer deactivate cleared has
\* no update
OneUpdatePerBurstLeft ==
    \A i \in 1..Len(host.calls) : \A j \in i..Len(host.calls) :
        IsBurst(i, j) =>
            IF ClearedByDeactivate(j)
            THEN UpdatesBetween(host.calls[i].at, host.calls[j].at + DebounceDelay) = <<>>
            ELSE OneUpdateOf(i, j)

AtMostOneTimer ==
    /\ Cardinality(host.timers) <= 1
    /\ \A timer \in host.timers : host.debounceTimer = <<timer.id>>

\* the timer of a call that another call followed in less than the delay
\* never ran
EarlierTimersCancelled ==
    \A k \in 1..(Len(host.calls) - 1) :
        host.calls[k + 1].at - host.calls[k].at < DebounceDelay =>
            /\ \A n \in 1..Len(host.updates) : host.updates[n].id # host.calls[k].id
            /\ \A timer \in host.timers : timer.id # host.calls[k].id

\* C11, as stated: scheduleUpdate debounces.  For a burst of calls, each
\* less than 200 ms after the one before, exactly one update runs, 200 ms
\* after the last call and for the document of the last call; at most one
\* timer is pending at any time; the timer of every earlier call of the
\* burst is cancelled and never runs.
C11_AsStated ==
    OneUpdatePerBurst /\ AtMostOneTimer /\ EarlierTimersCancelled

\* C11, amended: as stated, unless deactivate() comes before the timer of
\* the last call of the burst is due: it clears that timer and no update
\* runs for the burst.  The pending timer of a call runs unless another
\* call or deactivate() comes first.
C11_Debounce ==
    /\ [](OneUpdatePerBurstLeft /\ AtMostOneTimer /\ EarlierTimersCancelled)
    /\ \A k \in 1..MaxCalls :
          (Len(host.calls) = k /\ host.timers # {})
              ~> (\/ Len(host.calls) > k
                  \/ host.deactivated # <<>>
                  \/ /\ Len(host.calls) = k
                     /\ \E n \in 1..Len(host.updates) :
                            host.updates[n].id = host.calls[k].id)

\* a burst of three calls for different documents, and its one update
C11_Witness ==
    /\ Len(host.calls) = 3 /\ IsBurst(1, 3)
    /\ host.calls[1].document # host.calls[3].document
    /\ host.calls[3].at > host.calls[1].at
    /\ Len(host.updates) = 1
    /\ host.updates[1].document = host.calls[3].document

\* a burst that deactivate ended: its timer was cleared and nothing ran
C11_Deactivated ==
    /\ Len(host.calls) = 2 /\ IsBurst(1, 2) /\ ClearedByDeactivate(2)
    /\ host.updates = <<>> /\ host.now >= host.calls[2].at + DebounceDelay

\* the most recent run of the update had a Java document to work on and
\* getAnalysis returned undefined for it
UpdateUnavailable ==
    host.update.ran /\ host.update.target # <<>> /\ host.update.result = <<>>

\* C30: when getAnalysis returns undefined for the target Java document of
\* updateStructureFromDocument (the parser rejected its text), the run
\* changes nothing: the view holds the summary it held and fires no change
\* event, the diagnostics are what they were, and so is the Map; a run
\* empties the view only when it has no Java document to work on, then it
\* always does, and the diagnostics stay.
C30_UnavailableChangesNothing ==
    /\ UpdateUnavailable =>
          /\ parse(host.update.target[1].text).threw
          /\ host.summary = host.update.summary
          /\ ~host.update.fired
          /\ host.diagnostics = host.update.diagnostics
          /\ cache = last.before
    /\ host.update.ran =>
          /\ (host.update.fired /\ host.summary = <<>>) <=> host.update.target = <<>>
          /\ host.update.target = <<>> => host.diagnostics = host.update.diagnostics

\* a run for a document with a rejected text that has a warning, after a
\* run that filled the view and set the diagnostics of the same uri
C30_Witness ==
    /\ UpdateUnavailable /\ host.summary # <<>>
    /\ documentWarnings(host.update.target[1]) # <<>>
    /\ \E d \in host.diagnostics :
           d.uri = host.update.target[1].uri /\ d.warnings = <<>>

\* a run without a Java document empties a view that was filled
C30_Reset ==
    /\ host.update.ran /\ host.update.target = <<>>
    /\ host.update.summary # <<>> /\ host.summary = <<>>

====
